---- MODULE Spec2Model ----
(***************************************************************************)
(* A model of canmatrix's signal and frame codec                           *)
(* (src/src/canmatrix/canmatrix.py): Signal.phys2raw / Signal.raw2phys     *)
(* over decimal.Decimal, Frame.bitstruct_format, Frame.encode and          *)
(* Frame.decode over bitstruct's bit strings.                              *)
(*                                                                         *)
(* SignalSpec drives the conversions of one Signal; Spec builds a Frame    *)
(* with Frame.addSignal and drives Frame.bitstruct_format, Frame.encode    *)
(* and Frame.decode on it; MatrixSpec adds frames to a CanMatrix and       *)
(* drives CanMatrix.recalcDLC; LayoutSpec drives Frame.findNotUsedBits and *)
(* Frame.createDummySignals.                                               *)
(***************************************************************************)
EXTENDS Integers, Sequences, FiniteSets, TLC

VARIABLES
    signals,                 \* Frame.signals: the list of Signal records
    size,                    \* Frame.size: payload length in bytes
    is_complex_multiplexed,  \* Frame.is_complex_multiplexed
    calls,                   \* the calls made on the frame so far, each with its argument and outcome
    sig,                     \* the Signal the conversions are called on (SignalSpec)
    sigCalls,                \* the calls made on sig so far, each with its argument and outcome
    frames,                  \* CanMatrix.frames: the list of Frame records (MatrixSpec)
    dlcCalls,                \* the calls made on the matrix so far, each with the sizes and signals before
    j1939,                   \* Frame.id, extended, is_j1939 and the J1939 attributes (J1939Spec)
    idCalls                  \* the assignments to pgn, source and priority and the CanId objects made so far

vars == <<signals, size, is_complex_multiplexed, calls, sig, sigCalls, frames, dlcCalls,
          j1939, idCalls>>

(***************************************************************************)
(* Python integers of any size, as decimal digit strings (most significant *)
(* digit first): the _int of a decimal.Decimal.                            *)
(***************************************************************************)

Zeros(n) == [i \in 1..n |-> 0]

IsZeroN(ds) == \A i \in 1..Len(ds) : ds[i] = 0

StripZeros(ds) ==
    IF IsZeroN(ds) THEN <<0>>
    ELSE LET first == CHOOSE i \in 1..Len(ds) :
                          ds[i] # 0 /\ \A j \in 1..(i - 1) : ds[j] = 0
         IN  SubSeq(ds, first, Len(ds))

RECURSIVE NatDigits(_)
NatDigits(n) == IF n < 10 THEN <<n>> ELSE Append(NatDigits(n \div 10), n % 10)

RECURSIVE DigitsNat(_)
DigitsNat(ds) ==
    IF Len(ds) = 0 THEN 0
    ELSE 10 * DigitsNat(SubSeq(ds, 1, Len(ds) - 1)) + ds[Len(ds)]

PadTo(ds, n) == Zeros(n - Len(ds)) \o ds

MaxOf(a, b) == IF a >= b THEN a ELSE b
MinOf(a, b) == IF a <= b THEN a ELSE b

\* -1, 0, 1 as a < b, a = b, a > b, for digit strings of one length
CmpAligned(a, b) ==
    IF a = b THEN 0
    ELSE LET first == CHOOSE i \in 1..Len(a) :
                          a[i] # b[i] /\ \A j \in 1..(i - 1) : a[j] = b[j]
         IN  IF a[first] < b[first] THEN -1 ELSE 1

CmpN(a, b) ==
    LET n == MaxOf(Len(a), Len(b))
    IN  CmpAligned(PadTo(a, n), PadTo(b, n))

\* a + b: the carry into a column is decided by the first column to its
\* right whose digit sum is not 9
AddN(a, b) ==
    LET n  == MaxOf(Len(a), Len(b))
        pa == <<0>> \o PadTo(a, n)
        pb == <<0>> \o PadTo(b, n)
        carry(i) ==
            LET j == CHOOSE x \in (i + 1)..(n + 2) :
                         /\ (x = n + 2 \/ pa[x] + pb[x] # 9)
                         /\ \A k \in (i + 1)..(x - 1) : pa[k] + pb[k] = 9
            IN  IF j = n + 2 THEN 0 ELSE IF pa[j] + pb[j] >= 10 THEN 1 ELSE 0
    IN  IF n = 0 THEN <<0>>
        ELSE StripZeros([i \in 1..(n + 1) |-> (pa[i] + pb[i] + carry(i)) % 10] \o <<>>)

\* a - b for a >= b: the borrow out of a column is decided by the first
\* column to its right whose digits differ
SubN(a, b) ==
    LET n  == MaxOf(Len(a), Len(b))
        pa == PadTo(a, n)
        pb == PadTo(b, n)
        borrow(i) ==
            LET j == CHOOSE x \in (i + 1)..(n + 1) :
                         /\ (x = n + 1 \/ pa[x] # pb[x])
                         /\ \A k \in (i + 1)..(x - 1) : pa[k] = pb[k]
            IN  IF j = n + 1 THEN 0 ELSE IF pa[j] < pb[j] THEN 1 ELSE 0
    IN  IF n = 0 THEN <<0>>
        ELSE StripZeros([i \in 1..n |-> (pa[i] - pb[i] - borrow(i) + 10) % 10] \o <<>>)

\* the sum of a[i] * b[k - i + 1] over i in lo..hi: one column of the long
\* multiplication
RECURSIVE ColumnSum(_, _, _, _, _)
ColumnSum(a, b, k, lo, hi) ==
    IF lo > hi THEN 0
    ELSE a[lo] * b[k - lo + 1] + ColumnSum(a, b, k, lo + 1, hi)

\* a * b: the column sums (each below 10000 for operands of up to 123
\* digits), added up digit plane by digit plane
MulN(a, b) ==
    LET la   == Len(a)
        lb   == Len(b)
        m    == la + lb - 1
        cols == [k \in 1..m |-> ColumnSum(a, b, k, MaxOf(1, k - lb + 1), MinOf(la, k))] \o <<>>
        plane(p) == [k \in 1..m |-> (cols[k] \div p) % 10] \o <<>>
    IN  IF la = 0 \/ lb = 0 THEN <<0>>
        ELSE AddN(AddN(plane(1), plane(10) \o <<0>>),
                  AddN(plane(100) \o <<0, 0>>, plane(1000) \o <<0, 0, 0>>))

\* a * d for one digit d
MulSmall(a, d) == MulN(a, <<d>>)

\* one step of the long division: the quotient digit q and what is left of r
QuotStep(r, mults, q) == [q |-> <<q>>, r |-> SubN(r, mults[q + 1])]

\* the largest digit q with q * b <= r, and what is left of r; mults is the
\* table of 0 * b .. 9 * b
QuotDigit(r, mults) ==
    QuotStep(r, mults, CHOOSE x \in 0..9 :
                           /\ CmpN(mults[x + 1], r) <= 0
                           /\ (x = 9 \/ CmpN(mults[x + 2], r) > 0))

\* the quotient digits q followed by those of the division to their right
JoinQuot(q, right) == [q |-> q \o right.q, r |-> right.r]

\* long division of the digits lo..hi of a, r being the remainder that comes
\* in from the left: the quotient's digits and the remainder
RECURSIVE LongDiv(_, _, _, _, _)
RECURSIVE LongDivRight(_, _, _, _, _)
LongDiv(a, mults, lo, hi, r) ==
    IF lo = hi
    THEN QuotDigit(StripZeros(Append(r, a[lo])), mults)
    ELSE LongDivRight(a, mults, ((lo + hi) \div 2) + 1, hi,
                      LongDiv(a, mults, lo, (lo + hi) \div 2, r))

\* the digits lo..hi, to the right of the digits that left has divided
LongDivRight(a, mults, lo, hi, left) ==
    JoinQuot(left.q, LongDiv(a, mults, lo, hi, left.r))

\* the quotient without its leading zeros
StripQuot(dm) == [q |-> StripZeros(dm.q), r |-> dm.r]

\* the table of 0 * b .. 9 * b
Multiples(b) == [d \in 1..10 |-> MulSmall(b, d - 1)] \o <<>>

\* Python's divmod(a, b) for b > 0: the first Len(b) - 1 digits of a are
\* less than b, the long division starts after them
DivModN(a, b) ==
    IF Len(a) <= Len(b) - 1 THEN [q |-> <<0>>, r |-> StripZeros(a)]
    ELSE StripQuot(LongDiv(a, Multiples(b), Len(b), Len(a),
                           StripZeros(SubSeq(a, 1, Len(b) - 1))))

(***************************************************************************)
(* decimal.Decimal (defaultFloatFactory): sign, coefficient digits and     *)
(* exponent, with the arithmetic of Python's default context: every result *)
(* is rounded to DecimalPrec significant digits, ROUND_HALF_EVEN.          *)
(***************************************************************************)

DecimalPrec == 28

Dec(sign, int, exp) == [sign |-> sign, int |-> int, exp |-> exp]

\* Decimal(n) for a Python int n: exact
DecOfInt(n) == Dec(IF n < 0 THEN 1 ELSE 0, NatDigits(IF n < 0 THEN -n ELSE n), 0)

DecIsZero(d) == IsZeroN(d.int)

DecNeg(d) == Dec(1 - d.sign, d.int, d.exp)

\* Decimal._fix: round the coefficient to the context's precision
DecFix(d) ==
    LET n == Len(d.int)
    IN  IF n <= DecimalPrec THEN d
        ELSE LET keep == SubSeq(d.int, 1, DecimalPrec)
                 rest == SubSeq(d.int, DecimalPrec + 1, n)
                 half == <<5>> \o Zeros(n - DecimalPrec - 1)
                 c    == CmpAligned(rest, half)
                 up   == c > 0 \/ (c = 0 /\ keep[DecimalPrec] % 2 = 1)
                 kept == IF up THEN AddN(keep, <<1>>) ELSE keep
             IN  IF Len(kept) > DecimalPrec
                 THEN Dec(d.sign, SubSeq(kept, 1, DecimalPrec), d.exp + (n - DecimalPrec) + 1)
                 ELSE Dec(d.sign, kept, d.exp + (n - DecimalPrec))

\* the coefficient of d written at the exponent e <= d.exp
CoeffAt(d, e) == IF DecIsZero(d) THEN <<0>> ELSE d.int \o Zeros(d.exp - e)

\* Decimal.__add__
DecAdd(a, b) ==
    LET e  == MinOf(a.exp, b.exp)
        ca == CoeffAt(a, e)
        cb == CoeffAt(b, e)
        c  == CmpN(ca, cb)
    IN  IF a.sign = b.sign THEN DecFix(Dec(a.sign, AddN(ca, cb), e))
        ELSE IF c = 0 THEN Dec(0, <<0>>, e)
        ELSE IF c > 0 THEN DecFix(Dec(a.sign, SubN(ca, cb), e))
        ELSE DecFix(Dec(b.sign, SubN(cb, ca), e))

\* Decimal.__sub__
DecSub(a, b) == DecAdd(a, DecNeg(b))

\* Decimal.__mul__
DecMul(a, b) ==
    LET sign == IF a.sign = b.sign THEN 0 ELSE 1
    IN  IF DecIsZero(a) \/ DecIsZero(b) THEN Dec(sign, <<0>>, a.exp + b.exp)
        ELSE DecFix(Dec(sign, MulN(a.int, b.int), a.exp + b.exp))

\* an exact quotient is brought as close to the ideal exponent as its
\* trailing zeros allow
DropTrailingZeros(q, exp, ideal) ==
    LET n == Len(q)
        K == {k \in 0..MinOf(n - 1, MaxOf(ideal - exp, 0)) :
                 \A i \in (n - k + 1)..n : q[i] = 0}
        k == CHOOSE x \in K : \A y \in K : y <= x
    IN  [int |-> SubSeq(q, 1, n - k), exp |-> exp + k]

\* an inexact quotient is made sticky so that the rounding is correct
StickyQuot(q) == IF q[Len(q)] % 5 = 0 THEN AddN(q, <<1>>) ELSE q

\* the coefficient and exponent of the quotient before rounding
QuotCoeff(dm, exp, ideal) ==
    IF ~IsZeroN(dm.r) THEN [int |-> StickyQuot(dm.q), exp |-> exp]
    ELSE DropTrailingZeros(dm.q, exp, ideal)

DecOfCoeff(sign, c) == Dec(sign, c.int, c.exp)

\* Decimal.__truediv__ for a nonzero divisor b
DecDiv(a, b) ==
    LET sign  == IF a.sign = b.sign THEN 0 ELSE 1
        shift == Len(b.int) - Len(a.int) + DecimalPrec + 1
    IN  IF DecIsZero(a) THEN Dec(sign, <<0>>, a.exp - b.exp)
        ELSE DecFix(DecOfCoeff(sign,
                 QuotCoeff(DivModN(a.int \o Zeros(MaxOf(shift, 0)),
                                   b.int \o Zeros(MaxOf(-shift, 0))),
                           a.exp - b.exp - shift, a.exp - b.exp)))

\* Decimal.__int__: truncation towards zero
DecToInt(d) ==
    LET n   == Len(d.int)
        mag == IF d.exp >= 0 THEN DigitsNat(d.int \o Zeros(d.exp))
               ELSE IF -d.exp >= n THEN 0
               ELSE DigitsNat(SubSeq(d.int, 1, n + d.exp))
    IN  IF d.sign = 1 THEN -mag ELSE mag

\* Decimal comparison: -1, 0, 1 by numerical value
DecCmp(a, b) ==
    LET e  == MinOf(a.exp, b.exp)
        c  == CmpN(CoeffAt(a, e), CoeffAt(b, e))
    IN  IF DecIsZero(a) /\ DecIsZero(b) THEN 0
        ELSE IF a.sign # b.sign THEN (IF a.sign = 1 THEN -1 ELSE 1)
        ELSE IF a.sign = 1 THEN -c ELSE c

DecEq(a, b) == DecCmp(a, b) = 0

\* Decimal(f) for a Python float f = (-1)^sign * n / 2^k (as_integer_ratio):
\* the exact value, n * 5^k at the exponent -k
RECURSIVE Pow5(_)
Pow5(k) ==
    IF k = 0 THEN <<1>>
    ELSE IF k = 1 THEN <<5>>
    ELSE MulN(Pow5(k \div 2), Pow5(k - (k \div 2)))

DecOfFloat(sign, n, k) == Dec(sign, MulN(n, Pow5(k)), -k)

(***************************************************************************)
(* Python values: None, int, decimal.Decimal and str, in one shape.        *)
(***************************************************************************)

NoneVal == [kind |-> "none", n |-> 0, dec |-> Dec(0, <<0>>, 0), str |-> ""]
IntVal(n) == [kind |-> "int", n |-> n, dec |-> Dec(0, <<0>>, 0), str |-> ""]
DecVal(d) == [kind |-> "dec", n |-> 0, dec |-> d, str |-> ""]
StrVal(s) == [kind |-> "str", n |-> 0, dec |-> Dec(0, <<0>>, 0), str |-> s]
\* True and False; as numbers they are 1 and 0
BoolVal(b) == [kind |-> "bool", n |-> IF b THEN 1 ELSE 0, dec |-> Dec(0, <<0>>, 0), str |-> ""]

IsNumber(v) == v.kind \in {"int", "dec"}

\* the number v as a Decimal (an int converts exactly)
ToDec(v) == IF v.kind = "int" THEN DecOfInt(v.n) ELSE v.dec

\* Python's ==
PyEq(a, b) ==
    IF IsNumber(a) /\ IsNumber(b) THEN DecEq(ToDec(a), ToDec(b))
    ELSE a.kind = b.kind /\ a.str = b.str

\* int(x): a Decimal is truncated, a string that is not a number raises
\* ValueError
IntOf(v) ==
    IF IsNumber(v) THEN [raised |-> FALSE, n |-> DecToInt(ToDec(v))]
    ELSE [raised |-> TRUE, n |-> 0]

SetMin(S) == CHOOSE x \in S : \A y \in S : x <= y

RECURSIVE Pow2(_)
Pow2(n) == IF n = 0 THEN 1 ELSE 2 * Pow2(n - 1)

(***************************************************************************)
(* Signal                                                                  *)
(***************************************************************************)

\* the float_factory converter of offset and factor: the argument is a
\* Decimal already, or a float that decimal.Decimal converts exactly
float_factory(x) ==
    IF x.kind = "float" THEN DecOfFloat(x.sign, x.int, x.exp)
    ELSE Dec(x.sign, x.int, x.exp)

DecimalArg(sign, int, exp) == [kind |-> "decimal", sign |-> sign, int |-> int, exp |-> exp]
FloatArg(sign, n, k) == [kind |-> "float", sign |-> sign, int |-> n, exp |-> k]

\* normalizeValueTable: the items of the value table, keys as ints
normalizeValueTable(table) == [i \in 1..Len(table) |-> [key |-> table[i][1], name |-> table[i][2]]]

\* Signal.multiplexSetter: what it returns and the two fields it sets
multiplexSetter(value) ==
    IF value.kind # "none" /\ ~(value.kind = "str" /\ value.str = "Multiplexor")
    THEN [multiplex |-> IntVal(value.n), mux_val |-> IntVal(value.n), is_multiplexer |-> FALSE]
    ELSE [multiplex |-> value, mux_val |-> NoneVal, is_multiplexer |-> TRUE]

\* a Python int has no fixed width: 2 ** e beyond 2 ** 30 is kept in limbs
\* of four decimal digits, least significant first
Pow2_30Limbs == <<1824, 7374, 10>>

LimbProduct(l, m, i) == IF i <= Len(l) THEN l[i] * m ELSE 0

\* the carry out of limb i of l * m, for m <= 2 ** 17
RECURSIVE LimbCarry(_, _, _)
LimbCarry(l, m, i) ==
    IF i = 0 THEN 0
    ELSE (LimbProduct(l, m, i) + LimbCarry(l, m, i - 1)) \div 10000

LimbTimes(l, m) ==
    [i \in 1..(Len(l) + 2) |->
        (LimbProduct(l, m, i) + LimbCarry(l, m, i - 1)) % 10000]

\* the decimal digits of a number in limbs, most significant first
LimbDigits(l) ==
    StripZeros([j \in 1..(4 * Len(l)) |->
        (l[Len(l) - ((j - 1) \div 4)] \div <<1000, 100, 10, 1>>[((j - 1) % 4) + 1]) % 10])

\* the digits of the Python int 2 ** e, e <= 64
Pow2Digits(e) ==
    IF e <= 30 THEN NatDigits(Pow2(e))
    ELSE LimbDigits(LimbTimes(LimbTimes(Pow2_30Limbs, Pow2(MinOf(e - 30, 17))),
                              Pow2(MaxOf(e - 47, 0))))

\* the digits of 2 ** e - 1 for e > 0: the last digit of 2 ** e is not 0
LessOneDigits(d) == [d EXCEPT ![Len(d)] = @ - 1]

\* float_factory(2 ** e): an int for e >= 0, the float 1 / 2^-e otherwise
RawPower(e) ==
    IF e < 0 THEN DecOfFloat(0, <<1>>, -e)
    ELSE IF e <= 30 THEN DecOfInt(Pow2(e))
    ELSE Dec(0, Pow2Digits(e), 0)

\* float_factory(2 ** e - 1): the subtraction is made on the int or float
RawPowerLessOne(e) ==
    IF e < 0 THEN DecOfFloat(1, NatDigits(Pow2(-e) - 1), -e)
    ELSE IF e <= 30 THEN DecOfInt(Pow2(e) - 1)
    ELSE Dec(0, LessOneDigits(Pow2Digits(e)), 0)

\* calculateRawRange taking no bit for the sign
RawRangeOf_noSignBit(sz, is_signed) ==
    IF is_signed THEN <<DecNeg(RawPower(sz)), RawPowerLessOne(sz)>>
    ELSE <<DecOfInt(0), RawPowerLessOne(sz)>>

\* Signal.calculateRawRange from the size and the signedness
RawRangeOf(sz, is_signed) ==
    IF is_signed THEN <<DecNeg(RawPower(sz - 1)), RawPowerLessOne(sz - 1)>>
    ELSE <<DecOfInt(0), RawPowerLessOne(sz)>>

\* Signal.calcMin / Signal.calcMax: self.offset + (raw * self.factor)
calcBound(raw, offset, factor) == DecAdd(offset, DecMul(raw, factor))

\* Signal(name, startBit, size, is_little_endian, is_signed, offset, factor,
\*        multiplex, values, attributes) and __attrs_post_init__; min and max
\* are left to their defaults
Signal(name, startBit, sz, is_little_endian, is_signed, offset, factor, multiplex, values, attributes) ==
    LET m == multiplexSetter(multiplex)
    IN  [name |-> name, startBit |-> startBit, size |-> sz,
         is_little_endian |-> is_little_endian, is_signed |-> is_signed,
         offset |-> float_factory(offset), factor |-> float_factory(factor),
         min |-> calcBound(RawRangeOf(sz, is_signed)[1], float_factory(offset), float_factory(factor)),
         max |-> calcBound(RawRangeOf(sz, is_signed)[2], float_factory(offset), float_factory(factor)),
         multiplex |-> m.multiplex, mux_val |-> m.mux_val, is_multiplexer |-> m.is_multiplexer,
         is_float |-> FALSE,
         values |-> normalizeValueTable(values) \o <<>>,
         attributes |-> attributes]

\* bitNumbering is not None and bitNumbering != self.is_little_endian
Inconsistent(bitNumbering, is_little_endian) ==
    bitNumbering.kind # "none" /\ bitNumbering.n # (IF is_little_endian THEN 1 ELSE 0)

\* startLittle is True and self.is_little_endian is False
FromLsb(startLittle, is_little_endian) == startLittle = BoolVal(TRUE) /\ ~is_little_endian

\* the bit b reversed within its byte
Reflect(b) == b - (b % 8) + 7 - (b % 8)

\* setStartbit storing a negative start bit instead of raising
StoreStartbit_unchecked(startBit) == [raised |-> FALSE, startBit |-> startBit]

\* the end of Signal.setStartbit: a negative start bit raises, any other is
\* stored
StoreStartbit(startBit) == [raised |-> startBit < 0, startBit |-> startBit]

\* the start bit of setStartbit after the reversal, before the shift
Reversed(signal, startBit, bitNumbering) ==
    IF Inconsistent(bitNumbering, signal.is_little_endian) THEN Reflect(startBit) ELSE startBit

\* the shift of setStartbit made for a little-endian signal too
Shifted_anyOrder(signal, startBit, startLittle) ==
    IF startLittle = BoolVal(TRUE) THEN startBit + 1 - signal.size ELSE startBit

\* the start bit of setStartbit moved from the lsbit to the msbit
Shifted(signal, startBit, startLittle) ==
    IF FromLsb(startLittle, signal.is_little_endian) THEN startBit + 1 - signal.size ELSE startBit

\* Signal.setStartbit(startBit, bitNumbering, startLittle): whether it
\* raised, and the start bit it computed
setStartbit(signal, startBit, bitNumbering, startLittle) ==
    StoreStartbit(Shifted(signal, Reversed(signal, startBit, bitNumbering), startLittle))

\* the start bit of getStartbit moved from the msbit to the lsbit
Unshifted(signal, startLittle) ==
    IF FromLsb(startLittle, signal.is_little_endian) THEN signal.startBit + signal.size - 1
    ELSE signal.startBit

\* getStartbit without the reversal of the bit numbering
Unreversed_asIs(signal, startBitInternal, bitNumbering) == startBitInternal

\* the reversal of getStartbit, made after the shift
Unreversed(signal, startBitInternal, bitNumbering) ==
    IF Inconsistent(bitNumbering, signal.is_little_endian) THEN Reflect(startBitInternal)
    ELSE startBitInternal

\* Signal.getStartbit(bitNumbering, startLittle)
getStartbitOf(signal, bitNumbering, startLittle) ==
    Unreversed(signal, Unshifted(signal, startLittle), bitNumbering)

\* Signal.getStartbit() with bitNumbering and startLittle left at None
getStartbit(signal) == getStartbitOf(signal, NoneVal, NoneVal)

\* Signal.calculateRawRange
calculateRawRange(signal) == RawRangeOf(signal.size, signal.is_signed)

\* Signal.bitstruct_format: one field of a format string
SignalBitstructFormat(signal) ==
    [endian |-> IF signal.is_little_endian THEN "<" ELSE ">",
     type   |-> IF signal.is_float THEN "f" ELSE IF signal.is_signed THEN "s" ELSE "u",
     size   |-> signal.size]

\* attributes.get(key, default) on the items of an attributes dict
AttrGet(attributes, key, default) ==
    LET hits == {i \in 1..Len(attributes) : attributes[i][1] = key}
    IN  IF hits = {} THEN default ELSE attributes[SetMin(hits)][2]

\* what phys2raw returns: the raw integer, or raised when the call raises;
\* logged when it logs that the value is not valid
Phys2RawResult(raised, raw, logged) == [raised |-> raised, raw |-> raw, logged |-> logged]

\* int(x) returned as the raw value
RawOfInt(asInt) == Phys2RawResult(asInt.raised, asInt.n, FALSE)

\* phys2raw ignoring the GenSigStartValue attribute
StartValue_zero(signal) == RawOfInt(IntOf(IntVal(0)))

\* Signal.phys2raw(None): int(self.attributes.get('GenSigStartValue', 0))
StartValue(signal) == RawOfInt(IntOf(AttrGet(signal.attributes, "GenSigStartValue", IntVal(0))))

\* the value table lookup falling back to 0 for a name it does not have
NameKey_default(signal, name) ==
    LET hits == {i \in 1..Len(signal.values) : signal.values[i].name = name}
    IN  IF hits = {} THEN [raised |-> FALSE, key |-> 0]
        ELSE [raised |-> FALSE, key |-> signal.values[SetMin(hits)].key]

\* the loop of phys2raw over self.values.items(): the key of the first item
\* whose name is the value, ValueError when there is none
NameKey(signal, name) ==
    LET hits == {i \in 1..Len(signal.values) : signal.values[i].name = name}
    IN  IF hits = {} THEN [raised |-> TRUE, key |-> 0]
        ELSE [raised |-> FALSE, key |-> signal.values[SetMin(hits)].key]

\* not (self.min <= value <= self.max)
OutOfRange(signal, num) == ~(DecCmp(signal.min, num) <= 0 /\ DecCmp(num, signal.max) <= 0)

\* the scaling of phys2raw clamping the value to [min, max] first
Scale_clamped(signal, num) ==
    IF DecIsZero(signal.factor) THEN Phys2RawResult(TRUE, 0, OutOfRange(signal, num))
    ELSE Phys2RawResult(FALSE,
             DecToInt(DecDiv(DecSub(IF DecCmp(num, signal.min) < 0 THEN signal.min
                                    ELSE IF DecCmp(num, signal.max) > 0 THEN signal.max
                                    ELSE num,
                                    signal.offset), signal.factor)),
             OutOfRange(signal, num))

\* the end of phys2raw for the number num: the range is only logged, then
\* int((value - self.offset) / self.factor); a zero factor raises
Scale(signal, num) ==
    IF DecIsZero(signal.factor) THEN Phys2RawResult(TRUE, 0, OutOfRange(signal, num))
    ELSE Phys2RawResult(FALSE,
             DecToInt(DecDiv(DecSub(num, signal.offset), signal.factor)),
             OutOfRange(signal, num))

\* the scaling of the key that the value table gave
ScaleKey(signal, found) ==
    IF found.raised THEN Phys2RawResult(TRUE, 0, FALSE)
    ELSE Scale(signal, DecOfInt(found.key))

\* Signal.phys2raw: a name is replaced by its key in the value table, and
\* the number is scaled
phys2raw(signal, value) ==
    IF value.kind = "none" THEN StartValue(signal)
    ELSE IF value.kind = "str" THEN ScaleKey(signal, NameKey(signal, value.str))
    ELSE Scale(signal, ToDec(value))

\* value * self.factor + self.offset
Physical(signal, value) == DecAdd(DecMul(DecOfInt(value), signal.factor), signal.offset)

\* the items of the value table whose key equals the Decimal key
TableHits(values, key) == {i \in 1..Len(values) : DecEq(DecOfInt(values[i].key), key)}

\* the loop over self.values.items(): the name of the first item found, or
\* the physical value
NameOrValue(values, hits, phys, decodeToStr) ==
    IF decodeToStr /\ hits # {} THEN StrVal(values[SetMin(hits)].name) ELSE DecVal(phys)

\* the value representation of phys, sought under key
Represent(signal, phys, key, decodeToStr) ==
    NameOrValue(signal.values, TableHits(signal.values, key), phys, decodeToStr)

\* raw2phys looking the raw value up in the value table, not the physical one
raw2phys_rawKey(signal, value, decodeToStr) ==
    Represent(signal, Physical(signal, value), DecOfInt(value), decodeToStr)

\* the value representation of phys, sought under phys itself
RepresentValue(signal, phys, decodeToStr) == Represent(signal, phys, phys, decodeToStr)

\* Signal.raw2phys
raw2phys(signal, value, decodeToStr) ==
    RepresentValue(signal, Physical(signal, value), decodeToStr)

(***************************************************************************)
(* bitstruct: a format is the list of the fields of a format string        *)
(* ('<u4', '>s6', 'p2'), a payload is the list of its bits, first bit of   *)
(* the first byte first.                                                   *)
(***************************************************************************)

Field(endian, type, sz) == [endian |-> endian, type |-> type, size |-> sz]

Padding(n) == Field(">", "p", n)

RECURSIVE SumSizes(_)
SumSizes(fmt) == IF Len(fmt) = 0 THEN 0 ELSE fmt[1].size + SumSizes(Tail(fmt))

Reverse(bits) == [i \in 1..Len(bits) |-> bits[Len(bits) + 1 - i]] \o <<>>

\* the n bits of an integer, most significant first, two's complement for a
\* negative one
IntToBits(value, n) == [i \in 1..n |-> ((value % Pow2(n)) \div Pow2(n - i)) % 2] \o <<>>

RECURSIVE BitsToInt(_)
BitsToInt(bits) ==
    IF Len(bits) = 0 THEN 0
    ELSE 2 * BitsToInt(SubSeq(bits, 1, Len(bits) - 1)) + bits[Len(bits)]

\* the bits of one field: zeros for padding; for a value its bits, reversed
\* when the field is little endian ('<')
PackField(field, value) ==
    IF field.type = "p" THEN Zeros(field.size) \o <<>>
    ELSE IF field.endian = "<" THEN Reverse(IntToBits(value, field.size))
    ELSE IntToBits(value, field.size)

\* the value of the bits of one field
UnpackField(field, bits) ==
    LET ordered == IF field.endian = "<" THEN Reverse(bits) ELSE bits
        n       == BitsToInt(ordered)
    IN  IF field.type = "s" /\ ordered[1] = 1 THEN n - Pow2(field.size) ELSE n

\* the fields of fmt with, for each, the number of value fields before it
\* and the number of bits before it
RECURSIVE ValuesBefore(_, _)
ValuesBefore(fmt, i) ==
    IF i = 1 THEN 0
    ELSE ValuesBefore(fmt, i - 1) + (IF fmt[i - 1].type = "p" THEN 0 ELSE 1)

BitsBefore(fmt, i) == SumSizes(SubSeq(fmt, 1, i - 1))

RECURSIVE Concat(_)
Concat(seqs) == IF Len(seqs) = 0 THEN <<>> ELSE seqs[1] \o Concat(Tail(seqs))

\* a format string with a field of size 0 is rejected ("bad format")
BadFormat(fmt) == \E i \in 1..Len(fmt) : fmt[i].size = 0

\* zero bits up to a whole number of bytes
PadToBytes(bits) == bits \o Zeros((8 - (Len(bits) % 8)) % 8)

\* bitstruct.pack(fmt, *values) for in-range values: the fields one after
\* the other, filled with zero bits up to a whole number of bytes
pack(fmt, values) ==
    IF BadFormat(fmt) \/ Len(values) < ValuesBefore(fmt, Len(fmt) + 1)
    THEN [raised |-> TRUE, bits |-> <<>>]
    ELSE [raised |-> FALSE,
          bits   |-> PadToBytes(Concat([i \in 1..Len(fmt) |->
                         PackField(fmt[i],
                                   IF fmt[i].type = "p" THEN 0
                                   ELSE values[ValuesBefore(fmt, i) + 1])]))]

\* bitstruct.unpack(fmt, data): the values of the fields that are not
\* padding; raises when data has fewer bits than the format
unpack(fmt, data) ==
    LET idx == SelectSeq([i \in 1..Len(fmt) |-> i], LAMBDA i : fmt[i].type # "p")
    IN  IF BadFormat(fmt) \/ SumSizes(fmt) > Len(data) THEN [raised |-> TRUE, values |-> <<>>]
        ELSE [raised |-> FALSE,
              values |-> [k \in 1..Len(idx) |->
                             UnpackField(fmt[idx[k]],
                                         SubSeq(data, BitsBefore(fmt, idx[k]) + 1,
                                                BitsBefore(fmt, idx[k]) + fmt[idx[k]].size))] \o <<>>]

(***************************************************************************)
(* Frame                                                                   *)
(***************************************************************************)

\* dict.get(key) on the items of a dict (None when the key is missing)
DictGet(items, key) ==
    LET hits == {i \in 1..Len(items) : items[i][1] = key}
    IN  IF hits = {} THEN NoneVal ELSE items[SetMin(hits)][2]

\* sorted(list, key=lambda s: s.getStartbit()): a stable sort
RECURSIVE sorted(_)
sorted(list) ==
    IF Len(list) <= 1 THEN list
    ELSE LET front == sorted(SubSeq(list, 1, Len(list) - 1))
             x     == list[Len(list)]
             keep  == {i \in 1..Len(front) : getStartbit(front[i]) <= getStartbit(x)}
             k     == IF keep = {} THEN 0 ELSE CHOOSE i \in keep : \A j \in keep : j <= i
         IN  SubSeq(front, 1, k) \o <<x>> \o SubSeq(front, k + 1, Len(front))

\* an optional argument: None, or the list that was passed
NoList == [given |-> FALSE, list |-> <<>>]
Given(list) == [given |-> TRUE, list |-> list]

\* the loop of Frame.bitstruct_format over the sorted signals from the i-th
\* on: end is where the previous field started, fmt the fields so far
RECURSIVE FormatLoop(_, _, _, _, _)
FormatLoop(sigs, i, frame_size, end, fmt) ==
    IF i > Len(sigs)
    THEN IF end # 0 THEN Append(fmt, Padding(end)) ELSE fmt
    ELSE LET signal  == sigs[i]
             start   == frame_size - getStartbit(signal) - signal.size
             padding == end - (start + signal.size)
             padded  == IF padding > 0 THEN Append(fmt, Padding(padding)) ELSE fmt
         IN  FormatLoop(sigs, i + 1, frame_size, start,
                        Append(padded, SignalBitstructFormat(signal)))

\* Frame.bitstruct_format(signalsToDecode)
bitstruct_format(signalsToDecode) ==
    LET frame_size == size * 8
        sigs       == IF ~signalsToDecode.given THEN sorted(signals)
                      ELSE sorted(signalsToDecode.list)
    IN  FormatLoop(sigs, 1, frame_size, frame_size, <<>>)

\* Frame.is_multiplexed
is_multiplexed == \E i \in 1..Len(signals) : signals[i].is_multiplexer

Names(list) == [i \in 1..Len(list) |-> list[i].name] \o <<>>

\* what a call on the frame did: its arguments (data for encode, payload and
\* decodeToStr for decode, list for bitstruct_format) and its outcome (raised
\* when it raised; the format built, the names of the signals packed and the
\* payload returned by encode; the selecting value and the items returned by
\* decode), and the frame it was made on
Call(op, data, payload, decodeToStr, list, raised, fmt, packed, muxVal, result) ==
    [op |-> op, data |-> data, payload |-> payload, decodeToStr |-> decodeToStr,
     list |-> list, raised |-> raised, fmt |-> fmt, packed |-> packed,
     muxVal |-> muxVal, result |-> result, raws |-> <<>>,
     frame |-> [signals |-> signals, size |-> size,
                is_complex_multiplexed |-> is_complex_multiplexed]]

Raises(op, data, payload, decodeToStr) ==
    Call(op, data, payload, decodeToStr, NoList, TRUE, <<>>, <<>>, NoneVal, <<>>)

\* Frame.encode(data) on a frame that is not complex multiplexed
EncodeSignals(data) ==
    LET muxIdx    == CHOOSE i \in 1..Len(signals) :
                         /\ signals[i].is_multiplexer
                         /\ \A j \in (i + 1)..Len(signals) : ~signals[j].is_multiplexer
        muxSignal == signals[muxIdx]
        muxVal    == DictGet(data, muxSignal.name)
    IN  <<muxSignal>> \o
        SelectSeq(signals, LAMBDA s : PyEq(s.mux_val, muxVal) \/ s.mux_val.kind = "none")

\* the calls of signal.phys2raw that the loop of Frame.encode makes, up to
\* the first that raises: the signal's name, the value passed, the outcome
Phys2RawCalls(data, sigs, raws) ==
    [i \in {k \in 1..Len(sigs) : \A j \in 1..(k - 1) : ~raws[j].raised} |->
        [name |-> sigs[i].name, value |-> DictGet(data, sigs[i].name),
         raised |-> raws[i].raised, raw |-> raws[i].raw]] \o <<>>

\* the outcome of Frame.encode with the calls of phys2raw it made
EncodeOutcome(call, phys2raws) == [call EXCEPT !.raws = phys2raws]

\* the end of Frame.encode: what bitstruct.pack returned
EncodePacked(data, fmt, sigs, raws, out) ==
    EncodeOutcome(IF (\E i \in 1..Len(sigs) : raws[i].raised) \/ out.raised
                  THEN Raises("encode", data, <<>>, FALSE)
                  ELSE Call("encode", data, out.bits, FALSE, NoList, FALSE, fmt, Names(sigs),
                            NoneVal, <<>>),
                  Phys2RawCalls(data, sigs, raws))

\* bitstruct.pack(fmt, *signal_value)
EncodeRaws(data, fmt, sigs, raws) ==
    EncodePacked(data, fmt, sigs, raws,
                 pack(fmt, [i \in 1..Len(sigs) |-> raws[i].raw] \o <<>>))

\* the loop of Frame.encode that fills signal_value with signal.phys2raw
EncodeLoop(data, fmt, sigs) ==
    EncodeRaws(data, fmt, sigs,
               [i \in 1..Len(sigs) |-> phys2raw(sigs[i], DictGet(data, sigs[i].name))] \o <<>>)

\* the multiplexed branch of Frame.encode: fmt and signals from encodeSignals
EncodeMultiplexed(data, encodeSignals) ==
    EncodeLoop(data, bitstruct_format(Given(encodeSignals)), sorted(encodeSignals))

\* Frame.encode(data): complex multiplexing binds neither fmt nor signals,
\* the loop over signals then raises UnboundLocalError
encode(data) ==
    IF is_complex_multiplexed THEN Raises("encode", data, <<>>, FALSE)
    ELSE IF is_multiplexed THEN EncodeMultiplexed(data, EncodeSignals(data))
    ELSE EncodeLoop(data, bitstruct_format(NoList), sorted(signals))

\* zip(signals, bitstruct.unpack(fmt, data)) into an OrderedDict of
\* signal.raw2phys(value, decodeToStr): the items of the dict
DecodeValues(sigs, values, decodeToStr) ==
    [i \in 1..MinOf(Len(sigs), Len(values)) |->
        <<sigs[i].name, raw2phys(sigs[i], values[i], decodeToStr)>>] \o <<>>

\* the first loop of Frame.decode raised: muxVal is the value assigned last
MuxRaised(muxVal) == [raised |-> TRUE, muxVal |-> muxVal]

\* the first loop of Frame.decode from the i-th signal on: bound tells
\* whether signals_values is bound yet, first is its first value, muxVal the
\* value assigned last
RECURSIVE MuxLoop(_, _, _, _, _, _)
RECURSIVE MuxUnpacked(_, _, _, _, _)
RECURSIVE MuxDecoded(_, _, _, _, _)
RECURSIVE MuxAssign(_, _, _, _, _, _)
RECURSIVE MuxInt(_, _, _, _, _, _)
MuxLoop(i, data, decodeToStr, bound, first, muxVal) ==
    IF i > Len(signals) THEN [raised |-> FALSE, muxVal |-> muxVal]
    ELSE IF signals[i].is_multiplexer
    THEN MuxUnpacked(i, data, decodeToStr, muxVal,
                     unpack(bitstruct_format(Given(<<signals[i]>>)), data))
    ELSE MuxAssign(i, data, decodeToStr, bound, first, muxVal)

\* the body of 'if signal.is_multiplexer': un is what bitstruct.unpack gave
MuxUnpacked(i, data, decodeToStr, muxVal, un) ==
    IF un.raised THEN MuxRaised(muxVal)
    ELSE MuxDecoded(i, data, decodeToStr, muxVal,
                    DecodeValues(sorted(signals), un.values, decodeToStr))

\* signals_values is bound to items
MuxDecoded(i, data, decodeToStr, muxVal, items) ==
    IF Len(items) = 0 THEN MuxRaised(muxVal)
    ELSE MuxAssign(i, data, decodeToStr, TRUE, items[1][2], muxVal)

\* muxVal = int(list(signals_values.values())[0]), at the level of the loop
MuxAssign(i, data, decodeToStr, bound, first, muxVal) ==
    IF ~bound THEN MuxRaised(muxVal)
    ELSE MuxInt(i, data, decodeToStr, first, muxVal, IntOf(first))

MuxInt(i, data, decodeToStr, first, muxVal, asInt) ==
    IF asInt.raised THEN MuxRaised(muxVal)
    ELSE MuxLoop(i + 1, data, decodeToStr, TRUE, first, IntVal(asInt.n))

\* the end of Frame.decode: un is what bitstruct.unpack gave
DecodeUnpacked(data, decodeToStr, muxVal, fmt, sigs, un) ==
    IF un.raised
    THEN Call("decode", <<>>, data, decodeToStr, NoList, TRUE, fmt, <<>>, muxVal, <<>>)
    ELSE Call("decode", <<>>, data, decodeToStr, NoList, FALSE, fmt, Names(sigs),
              muxVal, DecodeValues(sigs, un.values, decodeToStr))

\* the final loop of Frame.decode over zip(signals, bitstruct.unpack(fmt, data))
DecodeLoop(data, decodeToStr, muxVal, fmt, sigs) ==
    DecodeUnpacked(data, decodeToStr, muxVal, fmt, sigs, unpack(fmt, data))

\* fmt and signals from the signals with the identified multiplexer value
DecodeMuxed(data, decodeToStr, muxVal, muxedSignals) ==
    DecodeLoop(data, decodeToStr, muxVal,
               bitstruct_format(Given(muxedSignals)), sorted(muxedSignals))

\* the multiplexed branch of Frame.decode after its first loop
DecodeMultiplexed(data, decodeToStr, mux) ==
    IF mux.raised
    THEN Call("decode", <<>>, data, decodeToStr, NoList, TRUE, <<>>, <<>>, mux.muxVal, <<>>)
    ELSE DecodeMuxed(data, decodeToStr, mux.muxVal,
                     SelectSeq(signals,
                         LAMBDA s : PyEq(s.mux_val, mux.muxVal) \/ s.mux_val.kind = "none"))

\* Frame.decode(data, decodeToStr): complex multiplexing binds neither fmt
\* nor signals, the final loop then raises UnboundLocalError
decode(data, decodeToStr) ==
    IF is_complex_multiplexed THEN Raises("decode", <<>>, data, decodeToStr)
    ELSE IF is_multiplexed
    THEN DecodeMultiplexed(data, decodeToStr,
                           MuxLoop(1, data, decodeToStr, FALSE, NoneVal, NoneVal))
    ELSE DecodeLoop(data, decodeToStr, NoneVal, bitstruct_format(NoList), sorted(signals))

(***************************************************************************)
(* The identifier of a Frame: the J1939 properties and CanId.              *)
(***************************************************************************)

\* a Frame as constructed: id 0, extended False, j1939_pgn None, j1939_source
\* 0, j1939_prio 0, is_j1939 False; the attributes _j1939_source and
\* _j1939_prio do not exist yet (held here as None)
NewFrame ==
    [id |-> 0, extended |-> FALSE, is_j1939 |-> FALSE,
     j1939_pgn |-> NoneVal, j1939_source |-> IntVal(0), j1939_prio |-> IntVal(0),
     _j1939_source |-> NoneVal, _j1939_prio |-> NoneVal]

\* (source & 0xff) + ((pgn & 0xffff) << 8) + ((prio & 0x7) << 26)
ComposeId(source, pgn, prio) ==
    (source % 256) + ((pgn % 65536) * 256) + ((prio % 8) * 67108864)

\* the outcome of a setter: whether it raised, and the frame it leaves
Assigned(raised, frame) == [raised |-> raised, frame |-> frame]

\* Frame.recalcJ1939Id: None & 0xffff raises TypeError before anything is
\* assigned
recalcJ1939Id(frame) ==
    IF frame.j1939_pgn.kind = "none" THEN Assigned(TRUE, frame)
    ELSE Assigned(FALSE, [frame EXCEPT !.id = ComposeId(frame.j1939_source.n, frame.j1939_pgn.n,
                                                       frame.j1939_prio.n),
                                       !.extended = TRUE, !.is_j1939 = TRUE])

\* the setter of Frame.pgn
setPgn(frame, value) == recalcJ1939Id([frame EXCEPT !.j1939_pgn = IntVal(value)])

\* the setter of Frame.priority
setPriority(frame, value) == recalcJ1939Id([frame EXCEPT !._j1939_prio = IntVal(value)])

\* the setter of Frame.source
setSource(frame, value) == recalcJ1939Id([frame EXCEPT !._j1939_source = IntVal(value)])

\* a CanId that decomposes whatever kind of identifier it is given
CanId_alwaysDecomposed(id, extended) ==
    [source |-> IntVal(id % 256),
     pgn |-> IntVal((id \div 256) % 65536),
     destination |-> IntVal((id \div 16777216) % 256)]

\* CanId(id, extended): source = id & 0xFF, pgn = (id >> 8) & 0xFFFF,
\* destination = id >> 8 * 3 & 0xFF, that is (id >> 24) & 0xFF; the class
\* attributes, None, stay for an identifier that is not extended
CanId(id, extended) ==
    IF extended
    THEN [source |-> IntVal(id % 256),
          pgn |-> IntVal((id \div 256) % 65536),
          destination |-> IntVal((id \div 16777216) % 256)]
    ELSE [source |-> NoneVal, pgn |-> NoneVal, destination |-> NoneVal]

\* CanId.tuples
tuples(canId) == <<canId.destination, canId.pgn, canId.source>>

(***************************************************************************)
(* SignalSpec: one Signal and the conversions called on it.                *)
(***************************************************************************)

MaxSigSize == 2       \* the signals of SignalSpec are MaxSigSize bits wide

\* 0.1 as Python reads the float literal: 3602879701896397 / 2^55
FloatTenth == FloatArg(0, <<3,6,0,2,8,7,9,7,0,1,8,9,6,3,9,7>>, 55)

FactorPool ==
    { DecimalArg(0, <<1>>, 0),        \* Decimal('1')
      DecimalArg(0, <<1>>, -1),       \* Decimal('0.1')
      FloatTenth,                     \* 0.1
      DecimalArg(1, <<5>>, -1),       \* Decimal('-0.5')
      DecimalArg(0, <<2>>, 0) }       \* Decimal('2')

OffsetPool ==
    { DecimalArg(0, <<0>>, 0),        \* Decimal('0')
      DecimalArg(0, <<1>>, 0),        \* Decimal('1')
      DecimalArg(1, <<2,5>>, -1),     \* Decimal('-2.5')
      DecimalArg(0, <<1>>, -29) }     \* Decimal('1E-29')

ValueTable == << <<1, "Init">>, <<3, "Error">> >>

\* every scaling with the value table, two signals without one, and
\* unscaled signals of each byte order, signedness and width from the default
\* 0 on, placed at bit 5
SigPool ==
    { Signal("S", 0, MaxSigSize, TRUE, sg, o, f, NoneVal, ValueTable, <<>>) :
        sg \in BOOLEAN, o \in OffsetPool, f \in FactorPool }
    \cup { Signal("S", 0, MaxSigSize, TRUE, FALSE, DecimalArg(0, <<0>>, 0), DecimalArg(0, <<1>>, 0),
                  NoneVal, <<>>, a) : a \in { <<>>, << <<"GenSigStartValue", IntVal(5)>> >> } }
    \cup { Signal("G", 5, sz, le, sg, DecimalArg(0, <<0>>, 0), DecimalArg(0, <<1>>, 0),
                  NoneVal, <<>>, <<>>) : sz \in 0..(MaxSigSize + 1), le \in BOOLEAN, sg \in BOOLEAN }

\* the raw integers of calculateRawRange()
RawRange(signal) ==
    DecToInt(calculateRawRange(signal)[1]) .. DecToInt(calculateRawRange(signal)[2])

\* physical values a caller passes to phys2raw: None, names, numbers
PhysPool ==
    { NoneVal, StrVal("Init"), StrVal("Error"), StrVal("Bogus"), IntVal(3),
      DecVal(Dec(0, <<1,5>>, -1)), IntVal(100), DecVal(Dec(1, <<7,2,5>>, -1)) }

\* start bits a caller passes to setStartbit
StartBitPool == {-1, 0, 3, 7, 8, 13}

\* what a caller passes for bitNumbering and for startLittle
FlagPool == {NoneVal, BoolVal(TRUE), BoolVal(FALSE)}

\* a call on the signal (raw, decodeToStr: the arguments of raw2phys; value:
\* the argument of phys2raw; startBit, bitNumbering, startLittle: those of
\* setStartbit and getStartbit; before: the start bit stored when
\* setStartbit was called; logged: phys2raw logged the value as not valid;
\* range: the pair calculateRawRange returned)
SigCall(op, raw, decodeToStr, value, raised, result) ==
    [op |-> op, raw |-> raw, decodeToStr |-> decodeToStr, value |-> value,
     raised |-> raised, result |-> result,
     startBit |-> 0, bitNumbering |-> NoneVal, startLittle |-> NoneVal, before |-> 0,
     logged |-> FALSE, range |-> <<>>]

\* a call of setStartbit or getStartbit
StartbitCall(op, startBit, bitNumbering, startLittle, before, raised, result) ==
    [SigCall(op, 0, FALSE, NoneVal, raised, IntVal(result)) EXCEPT
        !.startBit = startBit, !.bitNumbering = bitNumbering, !.startLittle = startLittle,
        !.before = before]

\* sig.raw2phys(raw, decodeToStr) of a raw value of calculateRawRange()
Raw2Phys ==
    /\ sigCalls = <<>>
    /\ \E raw \in RawRange(sig), decodeToStr \in BOOLEAN :
           sigCalls' = <<SigCall("raw2phys", raw, decodeToStr, NoneVal, FALSE,
                                 raw2phys(sig, raw, decodeToStr))>>
    /\ UNCHANGED <<signals, size, is_complex_multiplexed, calls, sig, frames, dlcCalls, j1939, idCalls>>

\* the call sig.phys2raw(value) with its outcome out
Phys2RawOutcome(value, out) ==
    [SigCall("phys2raw", 0, FALSE, value, out.raised, IntVal(out.raw)) EXCEPT !.logged = out.logged]

\* the call sig.phys2raw(value) and its outcome
Phys2RawCall(value) == Phys2RawOutcome(value, phys2raw(sig, value))

\* sig.phys2raw(value)
Phys2Raw ==
    /\ sigCalls = <<>>
    /\ \E value \in PhysPool : sigCalls' = <<Phys2RawCall(value)>>
    /\ UNCHANGED <<signals, size, is_complex_multiplexed, calls, sig, frames, dlcCalls, j1939, idCalls>>

\* sig.phys2raw(value) of what raw2phys has just returned
Phys2RawOfRaw2Phys ==
    /\ Len(sigCalls) = 1
    /\ sigCalls[1].op = "raw2phys"
    /\ sigCalls' = Append(sigCalls, Phys2RawCall(sigCalls[1].result))
    /\ UNCHANGED <<signals, size, is_complex_multiplexed, calls, sig, frames, dlcCalls, j1939, idCalls>>

\* sig.calculateRawRange()
CalculateRawRange ==
    /\ sigCalls = <<>>
    /\ sigCalls' = <<[SigCall("calculateRawRange", 0, FALSE, NoneVal, FALSE, NoneVal) EXCEPT
                         !.range = calculateRawRange(sig)]>>
    /\ UNCHANGED <<signals, size, is_complex_multiplexed, calls, sig, frames, dlcCalls, j1939, idCalls>>

\* the call sig.setStartbit(startBit, bitNumbering, startLittle) with its
\* outcome out
SetStartbitOutcome(startBit, bitNumbering, startLittle, out) ==
    /\ sig' = IF out.raised THEN sig ELSE [sig EXCEPT !.startBit = out.startBit]
    /\ sigCalls' = <<StartbitCall("setStartbit", startBit, bitNumbering, startLittle,
                                  sig.startBit, out.raised, out.startBit)>>

\* sig.setStartbit(startBit, bitNumbering, startLittle)
SetStartbit ==
    /\ sigCalls = <<>>
    /\ \E startBit \in StartBitPool, bitNumbering \in FlagPool, startLittle \in FlagPool :
           SetStartbitOutcome(startBit, bitNumbering, startLittle,
                              setStartbit(sig, startBit, bitNumbering, startLittle))
    /\ UNCHANGED <<signals, size, is_complex_multiplexed, calls, frames, dlcCalls, j1939, idCalls>>

\* sig.getStartbit(bitNumbering, startLittle) after a call of setStartbit
GetStartbit ==
    /\ Len(sigCalls) = 1
    /\ sigCalls[1].op = "setStartbit"
    /\ \E bitNumbering \in FlagPool, startLittle \in FlagPool :
           sigCalls' = Append(sigCalls,
                              StartbitCall("getStartbit", 0, bitNumbering, startLittle, sig.startBit,
                                           FALSE, getStartbitOf(sig, bitNumbering, startLittle)))
    /\ UNCHANGED <<signals, size, is_complex_multiplexed, calls, sig, frames, dlcCalls, j1939, idCalls>>

SignalInit ==
    /\ sig \in SigPool
    /\ sigCalls = <<>>
    /\ frames = <<>>
    /\ dlcCalls = <<>>
    /\ signals = <<>>
    /\ size = 0
    /\ is_complex_multiplexed = FALSE
    /\ calls = <<>>
    /\ j1939 = NewFrame
    /\ idCalls = <<>>

SignalNext ==
    \/ Raw2Phys
    \/ Phys2Raw
    \/ Phys2RawOfRaw2Phys
    \/ CalculateRawRange
    \/ SetStartbit
    \/ GetStartbit

SignalSpec == SignalInit /\ [][SignalNext]_vars

(***************************************************************************)
(* Spec: a Frame is built with addSignal; then bitstruct_format, encode or *)
(* decode is called on it, and what encode returned is decoded.            *)
(***************************************************************************)

MaxFrameSize     == 1     \* Frame.size, in bytes
MaxSignals       == 3     \* signals added to the frame
MaxFormatSignals == 3     \* signals passed to bitstruct_format

Zero == DecimalArg(0, <<0>>, 0)
One  == DecimalArg(0, <<1>>, 0)

\* the signals a frame is built from: a multiplexor, a signal of each of its
\* two branches, and two signals that are not multiplexed
SignalPool ==
    { Signal("mux", 0, 2, TRUE, FALSE, Zero, One, StrVal("Multiplexor"), << <<1, "One">> >>, <<>>),
      Signal("A", 2, 4, TRUE, FALSE, Zero, One, IntVal(0), <<>>, << <<"GenSigStartValue", IntVal(5)>> >>),
      Signal("B", 2, 6, TRUE, FALSE, Zero, One, IntVal(1), <<>>, <<>>),
      Signal("C", 4, 4, TRUE, FALSE, One, DecimalArg(0, <<2>>, 0), NoneVal, << <<3, "Three">> >>, <<>>),
      Signal("D", 0, 4, FALSE, TRUE, Zero, One, NoneVal, <<>>, <<>>) }

\* the signals bitstruct_format is called with: those, a signal of the
\* default size 0, and two signals with free bits before, between and after
\* them
FormatPool ==
    SignalPool \cup { Signal("Z", 3, 0, TRUE, FALSE, Zero, One, NoneVal, <<>>, <<>>),
                      Signal("E", 5, 2, TRUE, FALSE, Zero, One, NoneVal, <<>>, <<>>),
                      Signal("F", 1, 2, FALSE, TRUE, Zero, One, NoneVal, <<>>, <<>>) }

\* the lists of at most n signals of pool, no name twice
RECURSIVE SignalLists(_, _)
SignalLists(pool, n) ==
    IF n = 0 THEN {<<>>}
    ELSE LET shorter == SignalLists(pool, n - 1)
         IN  shorter \cup
             UNION { { Append(l, s) : s \in {x \in pool : \A i \in 1..Len(l) : l[i].name # x.name} } :
                     l \in shorter }

\* the raw values encoded
EncRaws == {-3, 0, 1, 5, 30}

\* the input maps of encode over the signals of list: each signal is left
\* out, or has the physical value of one of its raw values
RECURSIVE DataPool(_)
DataPool(list) ==
    IF Len(list) = 0 THEN {<<>>}
    ELSE LET s    == list[Len(list)]
             rest == DataPool(SubSeq(list, 1, Len(list) - 1))
         IN  rest \cup
             { Append(d, <<s.name, raw2phys(s, r, FALSE)>>) :
                   d \in rest, r \in EncRaws \cap RawRange(s) }

BytePool == { <<0,0,0,0,0,0,0,0>>, <<0,1,1,0,1,0,0,1>>, <<1,0,1,1,0,1,1,0>> }

\* payloads of n bytes
RECURSIVE PayloadPool(_)
PayloadPool(n) ==
    IF n = 0 THEN {<<>>}
    ELSE { p \o b : p \in PayloadPool(n - 1), b \in BytePool }

\* Frame.addSignal(signal)
addSignal ==
    /\ calls = <<>>
    /\ sigCalls = <<>>
    /\ Len(signals) < MaxSignals
    /\ \E signal \in SignalPool :
           /\ \A i \in 1..Len(signals) : signals[i].name # signal.name
           /\ signals' = Append(signals, signal)
    /\ UNCHANGED <<size, is_complex_multiplexed, calls, sig, sigCalls, frames, dlcCalls, j1939, idCalls>>

\* the lists passed to bitstruct_format: the format of a list depends on the
\* frame by its size only, so lists are passed to the frame without signals
FormatLists ==
    IF signals = <<>> THEN {Given(l) : l \in SignalLists(FormatPool, MaxFormatSignals)} ELSE {}

\* Frame.bitstruct_format(signalsToDecode): of a list of signals, or of the
\* frame's own when None is passed
BitstructFormat ==
    /\ calls = <<>>
    /\ sigCalls = <<>>
    /\ \E signalsToDecode \in {NoList} \cup FormatLists :
           calls' = <<Call("bitstruct_format", <<>>, <<>>, FALSE, signalsToDecode, FALSE,
                           bitstruct_format(signalsToDecode), <<>>, NoneVal, <<>>)>>
    /\ UNCHANGED <<signals, size, is_complex_multiplexed, sig, sigCalls, frames, dlcCalls, j1939, idCalls>>

\* the frame's list sorted in place by encode or decode
AfterCodec_sortedInPlace(frameSignals) == sorted(frameSignals)

\* self.signals after encode or decode: both read it with sorted(), which
\* builds a new list, and assign neither it nor an attribute of a signal
AfterCodec(frameSignals) == frameSignals

\* Frame.encode(data)
Encode ==
    /\ calls = <<>>
    /\ sigCalls = <<>>
    /\ \E data \in DataPool(signals) : calls' = <<encode(data)>>
    /\ signals' = AfterCodec(signals)
    /\ UNCHANGED <<size, is_complex_multiplexed, sig, sigCalls, frames, dlcCalls, j1939, idCalls>>

\* the names of the value table of a signal, and one it does not have
NamePool(signal) == {signal.values[j].name : j \in 1..Len(signal.values)} \cup {"Bogus"}

\* Frame.encode(data) of a map that gives a name to one of the signals
EncodeNames ==
    /\ calls = <<>>
    /\ sigCalls = <<>>
    /\ \E i \in 1..Len(signals) : \E name \in NamePool(signals[i]) :
           calls' = <<encode(<< <<signals[i].name, StrVal(name)>> >>)>>
    /\ signals' = AfterCodec(signals)
    /\ UNCHANGED <<size, is_complex_multiplexed, sig, sigCalls, frames, dlcCalls, j1939, idCalls>>

\* signal.phys2raw(value) called on a signal of the frame: sig is that signal
Phys2RawOfSignal ==
    /\ calls = <<>>
    /\ sigCalls = <<>>
    /\ \E i \in 1..Len(signals), value \in PhysPool :
           /\ sig' = signals[i]
           /\ sigCalls' = <<Phys2RawOutcome(value, phys2raw(signals[i], value))>>
    /\ UNCHANGED <<signals, size, is_complex_multiplexed, calls, frames, dlcCalls, j1939, idCalls>>

\* Frame.decode(data, decodeToStr) of a payload of the frame's size
Decode ==
    /\ calls = <<>>
    /\ sigCalls = <<>>
    /\ \E data \in PayloadPool(size), decodeToStr \in BOOLEAN :
           calls' = <<decode(data, decodeToStr)>>
    /\ signals' = AfterCodec(signals)
    /\ UNCHANGED <<size, is_complex_multiplexed, sig, sigCalls, frames, dlcCalls, j1939, idCalls>>

\* Frame.decode(data, decodeToStr) of the payload that encode has just
\* returned
DecodeEncoded ==
    /\ Len(calls) = 1
    /\ calls[1].op = "encode"
    /\ ~calls[1].raised
    /\ \E decodeToStr \in BOOLEAN :
           calls' = Append(calls, decode(calls[1].payload, decodeToStr))
    /\ signals' = AfterCodec(signals)
    /\ UNCHANGED <<size, is_complex_multiplexed, sig, sigCalls, frames, dlcCalls, j1939, idCalls>>

\* Frame.encode(data) of the map that decode has just returned
EncodeDecoded ==
    /\ Len(calls) = 1
    /\ calls[1].op = "decode"
    /\ ~calls[1].raised
    /\ calls' = Append(calls, encode(calls[1].result))
    /\ signals' = AfterCodec(signals)
    /\ UNCHANGED <<size, is_complex_multiplexed, sig, sigCalls, frames, dlcCalls, j1939, idCalls>>

Init ==
    /\ signals = <<>>
    /\ size \in 1..MaxFrameSize
    /\ is_complex_multiplexed \in BOOLEAN
    /\ calls = <<>>
    /\ sig = Signal("S", 0, MaxSigSize, TRUE, FALSE, Zero, One, NoneVal, <<>>, <<>>)
    /\ sigCalls = <<>>
    /\ frames = <<>>
    /\ dlcCalls = <<>>
    /\ j1939 = NewFrame
    /\ idCalls = <<>>

Next ==
    \/ addSignal
    \/ BitstructFormat
    \/ Encode
    \/ EncodeNames
    \/ Phys2RawOfSignal
    \/ Decode
    \/ DecodeEncoded
    \/ EncodeDecoded

Spec == Init /\ [][Next]_vars

(***************************************************************************)
(* MatrixSpec: frames are added to a CanMatrix with addFrame, and          *)
(* recalcDLC is called on it.                                              *)
(***************************************************************************)

MaxFrames   == 2      \* frames added to the matrix
MaxDlcCalls == 2      \* calls of recalcDLC

\* a Frame: its signals and its size
FrameOf(frameSignals, frameSize) == [signals |-> frameSignals, size |-> frameSize]

\* int(math.ceil(maxBit / 8)) with the true division of the module
CeilBytes(maxBit) == IF maxBit % 8 = 0 THEN maxBit \div 8 ELSE (maxBit \div 8) + 1

\* the loop over the signals from the i-th on: maxBit, which starts at 0,
\* becomes sig.getStartbit() + int(sig.size) when that is greater
RECURSIVE MaxBitLoop(_, _, _)
MaxBitLoop(frameSignals, i, maxBit) ==
    IF i > Len(frameSignals) THEN maxBit
    ELSE MaxBitLoop(frameSignals, i + 1,
                    MaxOf(maxBit, getStartbit(frameSignals[i]) + frameSignals[i].size))

\* calcDLC setting the size to the computed length
calcDLC_exact(frame) ==
    [frame EXCEPT !.size = CeilBytes(MaxBitLoop(frame.signals, 1, 0))]

\* Frame.calcDLC: self.size = max(self.size, int(math.ceil(maxBit / 8)))
calcDLC(frame) ==
    [frame EXCEPT !.size = MaxOf(frame.size, CeilBytes(MaxBitLoop(frame.signals, 1, 0)))]

\* the "force" branch keeping a size that is greater
forceDLC_keepLarger(frame) ==
    [frame EXCEPT !.size = MaxOf(frame.size, CeilBytes(MaxBitLoop(frame.signals, 1, 0)))]

\* the "force" branch of recalcDLC: frame.size = math.ceil(maxBit / 8)
forceDLC(frame) ==
    [frame EXCEPT !.size = CeilBytes(MaxBitLoop(frame.signals, 1, 0))]

\* the body of the loop of recalcDLC for one frame
recalcFrame(frame, strategy) ==
    IF strategy = "max" THEN calcDLC(frame)
    ELSE IF strategy = "force" THEN forceDLC(frame)
    ELSE frame

\* CanMatrix.recalcDLC(strategy): the frames after the loop
recalcDLC(strategy) == [f \in 1..Len(frames) |-> recalcFrame(frames[f], strategy)] \o <<>>

\* a signal of a frame of the matrix
DlcSignal(name, startBit, sz, is_little_endian) ==
    Signal(name, startBit, sz, is_little_endian, FALSE, Zero, One, NoneVal, <<>>, <<>>)

\* the signal lists of the frames added: none; one within the first byte;
\* one across the first two bytes, before and after one that ends earlier;
\* a big-endian signal in the second byte; one bit in the third byte
DlcSignalLists ==
    { <<>>,
      <<DlcSignal("P", 0, 4, TRUE)>>,
      <<DlcSignal("Q", 6, 4, TRUE), DlcSignal("P", 0, 4, TRUE)>>,
      <<DlcSignal("P", 0, 4, TRUE), DlcSignal("Q", 6, 4, TRUE)>>,
      <<DlcSignal("R", 8, 8, FALSE)>>,
      <<DlcSignal("T", 16, 1, TRUE)>> }

\* signal lists with signals of size 0: one; one before a signal; two
\* adjacent ones; two with a signal between them; three adjacent ones among
\* signals
ZeroSignalLists ==
    { <<DlcSignal("Z1", 0, 0, TRUE)>>,
      <<DlcSignal("Z1", 0, 0, TRUE), DlcSignal("P", 0, 4, TRUE)>>,
      <<DlcSignal("Z1", 0, 0, TRUE), DlcSignal("Z2", 4, 0, TRUE)>>,
      <<DlcSignal("Z1", 0, 0, TRUE), DlcSignal("P", 0, 4, TRUE), DlcSignal("Z2", 4, 0, TRUE)>>,
      <<DlcSignal("P", 0, 4, TRUE), DlcSignal("Z1", 0, 0, TRUE), DlcSignal("Z2", 4, 0, TRUE),
        DlcSignal("Z3", 5, 0, FALSE), DlcSignal("Q", 6, 4, TRUE)>> }

\* the frames added: sizes from 0 on, and frames of one byte with signals of
\* size 0
FramePool ==
    { FrameOf(l, sz) : l \in DlcSignalLists, sz \in 0..(MaxFrameSize + 1) }
        \cup { FrameOf(l, 1) : l \in ZeroSignalLists }

\* what recalcDLC is called with
StrategyPool == {"max", "force", "min"}

\* list.remove(x): the list without the first of its items that equals x
ListRemove(list, x) ==
    SubSeq(list, 1, SetMin({k \in 1..Len(list) : list[k] = x}) - 1)
        \o SubSeq(list, SetMin({k \in 1..Len(list) : list[k] = x}) + 1, Len(list))

\* the loop over frame.signals, which are removed from while the loop runs:
\* the iterator is at index idx, counted from 0, and ends when that is no
\* index of the list
RECURSIVE ZeroLoop(_, _)
ZeroLoop(frameSignals, idx) ==
    IF idx >= Len(frameSignals) THEN frameSignals
    ELSE IF 0 = frameSignals[idx + 1].size
    THEN ZeroLoop(ListRemove(frameSignals, frameSignals[idx + 1]), idx + 1)
    ELSE ZeroLoop(frameSignals, idx + 1)

\* CanMatrix.deleteZeroSignals(): the frames after the loop
deleteZeroSignals ==
    [f \in 1..Len(frames) |-> FrameOf(ZeroLoop(frames[f].signals, 0), frames[f].size)] \o <<>>

\* a call on the matrix: the strategy of recalcDLC, the sizes and the
\* signals of the frames before it
MatrixCall(op, strategy) ==
    [op |-> op, strategy |-> strategy,
     before |-> [f \in 1..Len(frames) |-> frames[f].size] \o <<>>,
     signals |-> [f \in 1..Len(frames) |-> frames[f].signals] \o <<>>]

\* CanMatrix.addFrame(frame), while the matrix is built
addFrame ==
    /\ dlcCalls = <<>>
    /\ Len(frames) < MaxFrames
    /\ \E frame \in FramePool : frames' = Append(frames, frame)
    /\ UNCHANGED <<signals, size, is_complex_multiplexed, calls, sig, sigCalls, dlcCalls, j1939, idCalls>>

\* CanMatrix.recalcDLC(strategy), any number of times in a row
RecalcDLC ==
    /\ Len(dlcCalls) < MaxDlcCalls
    /\ \A i \in 1..Len(dlcCalls) : dlcCalls[i].op = "recalcDLC"
    /\ \E strategy \in StrategyPool :
           /\ frames' = recalcDLC(strategy)
           /\ dlcCalls' = Append(dlcCalls, MatrixCall("recalcDLC", strategy))
    /\ UNCHANGED <<signals, size, is_complex_multiplexed, calls, sig, sigCalls, j1939, idCalls>>

\* CanMatrix.deleteZeroSignals(), any number of times in a row
DeleteZeroSignals ==
    /\ Len(dlcCalls) < MaxDlcCalls
    /\ \A i \in 1..Len(dlcCalls) : dlcCalls[i].op = "deleteZeroSignals"
    /\ frames' = deleteZeroSignals
    /\ dlcCalls' = Append(dlcCalls, MatrixCall("deleteZeroSignals", ""))
    /\ UNCHANGED <<signals, size, is_complex_multiplexed, calls, sig, sigCalls, j1939, idCalls>>

MatrixInit ==
    /\ frames = <<>>
    /\ dlcCalls = <<>>
    /\ signals = <<>>
    /\ size = 0
    /\ is_complex_multiplexed = FALSE
    /\ calls = <<>>
    /\ sig = Signal("S", 0, MaxSigSize, TRUE, FALSE, Zero, One, NoneVal, <<>>, <<>>)
    /\ sigCalls = <<>>
    /\ j1939 = NewFrame
    /\ idCalls = <<>>

MatrixNext ==
    \/ addFrame
    \/ RecalcDLC
    \/ DeleteZeroSignals

MatrixSpec == MatrixInit /\ [][MatrixNext]_vars

(***************************************************************************)
(* LayoutSpec: a Frame is built with addSignal; then findNotUsedBits or    *)
(* createDummySignals is called on it.                                     *)
(***************************************************************************)

FrameBits == 64       \* the positions findNotUsedBits looks at: range(0,64)

\* the index list[bit] reads or writes: a negative one counts from the end,
\* -1 stands for IndexError
ListIndex(bit) ==
    IF bit >= 0 /\ bit < FrameBits THEN bit
    ELSE IF bit < 0 /\ bit >= -FrameBits THEN bit + FrameBits
    ELSE -1

\* the range taken with its end included
SignalBits_inclusive(signal) == getStartbit(signal) .. (getStartbit(signal) + signal.size)

\* range(sig.getStartbit(), sig.getStartbit() + int(sig.size))
SignalBits(signal) == getStartbit(signal) .. (getStartbit(signal) + signal.size - 1)

\* the first loop of findNotUsedBits raises IndexError
MarkRaises(frameSignals) ==
    \E i \in 1..Len(frameSignals) : \E bit \in SignalBits(frameSignals[i]) : ListIndex(bit) = -1

\* the signals, by their number i, that write position pos of the bit field
\* of one byte order
Markers(frameSignals, little, pos) ==
    {i \in 1..Len(frameSignals) :
        /\ frameSignals[i].is_little_endian = little
        /\ \E bit \in SignalBits(frameSignals[i]) : ListIndex(bit) = pos}

\* the greatest of a set of numbers, 0 of the empty set
LastOf(S) == IF S = {} THEN 0 ELSE CHOOSE x \in S : \A y \in S : y <= x

\* bitfieldLe or bitfieldBe after the first loop, position pos: the number of
\* the last signal that wrote it, 0 when none did
Marked(frameSignals, little, pos) == LastOf(Markers(frameSignals, little, pos))

\* the last two loops of findNotUsedBits at position pos = i*8+j:
\* bitfieldLe[i*8+(7-j)], and bitfieldBe[i*8+j] where that is 0
Merged(frameSignals, pos) ==
    IF Marked(frameSignals, TRUE, pos - (pos % 8) + 7 - (pos % 8)) # 0
    THEN Marked(frameSignals, TRUE, pos - (pos % 8) + 7 - (pos % 8))
    ELSE Marked(frameSignals, FALSE, pos)

\* Frame.findNotUsedBits: whether it raised, and the list it returns (the
\* entry of position pos is bitfield[pos + 1])
findNotUsedBits(frameSignals) ==
    IF MarkRaises(frameSignals) THEN [raised |-> TRUE, bitfield |-> <<>>]
    ELSE [raised |-> FALSE,
          bitfield |-> [p \in 1..FrameBits |-> Merged(frameSignals, p - 1)] \o <<>>]

\* "_Dummy_%s_%d" % (self.name, sigCount) for the frame name ""
DummyName(sigCount) ==
    <<"_Dummy__0", "_Dummy__1", "_Dummy__2", "_Dummy__3", "_Dummy__4", "_Dummy__5",
      "_Dummy__6", "_Dummy__7">>[sigCount + 1]

\* Signal("_Dummy_..", size=.., startBit=.., is_little_endian=False)
DummySignal(sigCount, startBit, sz) ==
    Signal(DummyName(sigCount), startBit, sz, FALSE, TRUE,
           DecimalArg(0, <<0>>, 0), DecimalArg(0, <<1>>, 0), NoneVal, <<>>, <<>>)

\* if i == 63: i = 64
DummyEnd(bitfield, i) == IF i = 63 THEN 64 ELSE i

\* the positions where the loop of createDummySignals sets startBit: a free
\* position that no free position precedes
RunStarts(bitfield) ==
    {i \in 0..63 : bitfield[i + 1] = 0 /\ (i = 0 \/ bitfield[i] # 0)}

\* the position i where the loop adds the signal of the run open since
\* startBit: the first that is 63 or not free
RunClose(bitfield, startBit) ==
    CHOOSE i \in startBit..63 :
        /\ i = 63 \/ bitfield[i + 1] # 0
        /\ \A j \in startBit..(i - 1) : j # 63 /\ bitfield[j + 1] = 0

\* the signal added for the run open since startBit, sigCount signals having
\* been added before
DummyOfRun(bitfield, sigCount, startBit) ==
    DummySignal(sigCount, startBit, DummyEnd(bitfield, RunClose(bitfield, startBit)) - startBit)

\* the start of the run that sigCount runs precede
RunStart(starts, sigCount) ==
    CHOOSE i \in starts : Cardinality({j \in starts : j < i}) = sigCount

\* the signals that the loop of createDummySignals adds, in their order
DummyLoop(bitfield, starts) ==
    [k \in 1..Cardinality(starts) |-> DummyOfRun(bitfield, k - 1, RunStart(starts, k - 1))] \o <<>>

\* Frame.createDummySignals: whether it raised, and the signals it added
createDummySignals(frameSignals, found) ==
    IF found.raised THEN [raised |-> TRUE, added |-> <<>>]
    ELSE [raised |-> FALSE, added |-> DummyLoop(found.bitfield, RunStarts(found.bitfield))]

\* a signal of the frame whose layout is looked at
LayoutSignal(name, startBit, sz, is_little_endian) ==
    Signal(name, startBit, sz, is_little_endian, FALSE,
           DecimalArg(0, <<0>>, 0), DecimalArg(0, <<1>>, 0), NoneVal, <<>>, <<>>)

\* the signals added: the first byte and half of the second, little-endian;
\* half of the second byte, the last byte and the last position,
\* big-endian; a little-endian signal that goes beyond position 63
LayoutPool ==
    { LayoutSignal("L0", 0, 8, TRUE),
      LayoutSignal("L1", 12, 4, TRUE),
      LayoutSignal("B0", 8, 4, FALSE),
      LayoutSignal("B1", 56, 7, FALSE),
      LayoutSignal("B2", 63, 1, FALSE),
      LayoutSignal("X", 60, 8, TRUE) }

\* Frame.addSignal(signal) of a signal of LayoutPool
AddLayoutSignal ==
    /\ calls = <<>>
    /\ Len(signals) < MaxSignals
    /\ \E signal \in LayoutPool :
           /\ \A i \in 1..Len(signals) : signals[i].name # signal.name
           /\ signals' = Append(signals, signal)
    /\ UNCHANGED <<size, is_complex_multiplexed, calls, sig, sigCalls, frames, dlcCalls, j1939, idCalls>>

\* the call of findNotUsedBits with its outcome
FoundCall(found) ==
    Call("findNotUsedBits", <<>>, <<>>, FALSE, Given(signals), found.raised, <<>>, <<>>,
         NoneVal, found.bitfield)

\* Frame.findNotUsedBits()
FindNotUsedBits ==
    /\ calls = <<>>
    /\ calls' = <<FoundCall(findNotUsedBits(signals))>>
    /\ UNCHANGED <<signals, size, is_complex_multiplexed, sig, sigCalls, frames, dlcCalls, j1939, idCalls>>

\* the call of createDummySignals with its outcome: the signals before it,
\* the bit field it looked at, the names of the signals it added
CreateOutcome(found, out) ==
    /\ signals' = signals \o out.added
    /\ calls' = Append(calls, Call("createDummySignals", <<>>, <<>>, FALSE, Given(signals),
                                   out.raised, <<>>, Names(out.added), NoneVal, found.bitfield))

\* Frame.createDummySignals(), once or twice in a row
CreateDummySignals ==
    /\ Len(calls) < 2
    /\ \A i \in 1..Len(calls) : calls[i].op = "createDummySignals"
    /\ CreateOutcome(findNotUsedBits(signals),
                     createDummySignals(signals, findNotUsedBits(signals)))
    /\ UNCHANGED <<size, is_complex_multiplexed, sig, sigCalls, frames, dlcCalls, j1939, idCalls>>

LayoutInit ==
    /\ signals = <<>>
    /\ size = 8
    /\ is_complex_multiplexed = FALSE
    /\ calls = <<>>
    /\ sig = Signal("S", 0, MaxSigSize, TRUE, FALSE, Zero, One, NoneVal, <<>>, <<>>)
    /\ sigCalls = <<>>
    /\ frames = <<>>
    /\ dlcCalls = <<>>
    /\ j1939 = NewFrame
    /\ idCalls = <<>>

LayoutNext ==
    \/ AddLayoutSignal
    \/ FindNotUsedBits
    \/ CreateDummySignals

LayoutSpec == LayoutInit /\ [][LayoutNext]_vars

(***************************************************************************)
(* J1939Spec: pgn, source and priority of a new Frame are assigned; or a   *)
(* CanId is made of an identifier composed of a source, a pgn and a        *)
(* priority.                                                               *)
(***************************************************************************)

MaxAssignments == 3   \* assignments to the properties of the frame

\* the values assigned, some wider than their fields
PgnPool      == {48879, 117502}      \* 0xBEEF, 0x1CAFE
SourcePool   == {18, 511}            \* 0x12, 0x1FF
PriorityPool == {3, 9}

\* the parts an identifier is composed of
SourceParts   == {0, 18, 35, 255}    \* 0x12, 0x23, 0xFF
PgnParts      == {0, 1, 48879, 65535}
PriorityParts == {0, 3, 7}

\* an assignment to a property with its outcome
Assignment(op, value, out) ==
    /\ j1939' = out.frame
    /\ idCalls' = Append(idCalls, [op |-> op, value |-> value, raised |-> out.raised])

\* frame.pgn = value
AssignPgn ==
    /\ Len(idCalls) < MaxAssignments
    /\ \A i \in 1..Len(idCalls) : idCalls[i].op # "CanId"
    /\ \E value \in PgnPool : Assignment("pgn", value, setPgn(j1939, value))
    /\ UNCHANGED <<signals, size, is_complex_multiplexed, calls, sig, sigCalls, frames, dlcCalls>>

\* frame.source = value
AssignSource ==
    /\ Len(idCalls) < MaxAssignments
    /\ \A i \in 1..Len(idCalls) : idCalls[i].op # "CanId"
    /\ \E value \in SourcePool : Assignment("source", value, setSource(j1939, value))
    /\ UNCHANGED <<signals, size, is_complex_multiplexed, calls, sig, sigCalls, frames, dlcCalls>>

\* frame.priority = value
AssignPriority ==
    /\ Len(idCalls) < MaxAssignments
    /\ \A i \in 1..Len(idCalls) : idCalls[i].op # "CanId"
    /\ \E value \in PriorityPool : Assignment("priority", value, setPriority(j1939, value))
    /\ UNCHANGED <<signals, size, is_complex_multiplexed, calls, sig, sigCalls, frames, dlcCalls>>

\* the CanId made of id, and what its tuples() returns
CanIdCall(source, pgn, priority, id, extended, canId) ==
    [op |-> "CanId", source |-> source, pgn |-> pgn, priority |-> priority, id |-> id,
     extended |-> extended, raised |-> FALSE, canId |-> canId, tuples |-> tuples(canId)]

\* CanId(id, extended).tuples() of the identifier composed of a source, a pgn
\* and a priority
DecomposeId ==
    /\ idCalls = <<>>
    /\ \E source \in SourceParts, pgn \in PgnParts, priority \in PriorityParts, extended \in BOOLEAN :
           idCalls' = <<CanIdCall(source, pgn, priority, ComposeId(source, pgn, priority), extended,
                                  CanId(ComposeId(source, pgn, priority), extended))>>
    /\ UNCHANGED <<signals, size, is_complex_multiplexed, calls, sig, sigCalls, frames, dlcCalls,
                   j1939>>

J1939Init ==
    /\ j1939 = NewFrame
    /\ idCalls = <<>>
    /\ signals = <<>>
    /\ size = 0
    /\ is_complex_multiplexed = FALSE
    /\ calls = <<>>
    /\ sig = Signal("S", 0, MaxSigSize, TRUE, FALSE, Zero, One, NoneVal, <<>>, <<>>)
    /\ sigCalls = <<>>
    /\ frames = <<>>
    /\ dlcCalls = <<>>

J1939Next ==
    \/ AssignPgn
    \/ AssignSource
    \/ AssignPriority
    \/ DecomposeId

J1939Spec == J1939Init /\ [][J1939Next]_vars

(***************************************************************************)
(* Claims about the Frame (Spec)                                           *)
(***************************************************************************)

\* the signal was constructed with multiplex = 'Multiplexor'
IsMultiplexor(s) == s.multiplex = StrVal("Multiplexor")

HasMultiplexor == \E i \in 1..Len(signals) : IsMultiplexor(signals[i])

OneMultiplexor == Cardinality({i \in 1..Len(signals) : IsMultiplexor(signals[i])}) = 1

TheMultiplexor == signals[CHOOSE i \in 1..Len(signals) : IsMultiplexor(signals[i])]

\* the signals the specification selects for the multiplexor value v: the
\* multiplexor, and the signals whose multiplex is none or equals v
SelectedFor(v) ==
    SelectSeq(signals, LAMBDA s : IsMultiplexor(s) \/ s.multiplex.kind = "none" \/ PyEq(s.multiplex, v))

\* the signals the specification packs for the input map data
SelectedBy(data) ==
    IF HasMultiplexor THEN SelectedFor(DictGet(data, TheMultiplexor.name)) ELSE signals

\* the bits of the range [startBit, startBit + size) of a signal
BitRange(s) == s.startBit .. (s.startBit + s.size - 1)

\* the bit ranges are pairwise disjoint and inside the frame
DisjointInFrame(list) ==
    /\ \A i \in 1..Len(list) :
           list[i].startBit >= 0 /\ list[i].startBit + list[i].size <= size * 8
    /\ \A i, j \in 1..Len(list) :
           i < j => BitRange(list[i]) \cap BitRange(list[j]) = {}

DistinctNames(list) == \A i, j \in 1..Len(list) : list[i].name = list[j].name => i = j

HasValue(data, name) == DictGet(data, name).kind # "none"

\* every value of the input map is a number
NumericData(data) == \A k \in 1..Len(data) : IsNumber(data[k][2])

\* the items of result are exactly those of data: one per name, equal values
SameItems(result, data) ==
    /\ Len(result) = Len(data)
    /\ \A i \in 1..Len(data) :
           /\ HasValue(result, data[i][1])
           /\ PyEq(DictGet(result, data[i][1]), data[i][2])

\* the raw integer held in the bit field of signal s in payload
FieldRaw(s, payload) ==
    UnpackField(SignalBitstructFormat(s), SubSeq(payload, s.startBit + 1, s.startBit + s.size))

\* C1: on a frame that is not complex multiplexed, whose signals all have
\* multiplex = None, are not float and have pairwise disjoint bit ranges
\* inside the frame, encode of a map that gives every signal a physical value
\* of an in-range raw integer succeeds, and decode of its payload returns
\* exactly one entry per signal, equal to the value encoded.
C1_EncodeDecodeRoundTrip ==
    ( /\ ~is_complex_multiplexed
      /\ \A i \in 1..Len(signals) : signals[i].multiplex.kind = "none" /\ ~signals[i].is_float
      /\ DisjointInFrame(signals)
      /\ Len(calls) >= 1
      /\ calls[1].op = "encode"
      /\ NumericData(calls[1].data)
      /\ \A i \in 1..Len(signals) : HasValue(calls[1].data, signals[i].name) )
    => /\ ~calls[1].raised
       /\ (Len(calls) = 2 /\ ~calls[2].decodeToStr)
              => /\ ~calls[2].raised
                 /\ Len(calls[2].result) = Len(signals)
                 /\ SameItems(calls[2].result, calls[1].data)

\* C2: on a frame with one multiplexor and other signals with integer
\* multiplex values, encode of {mux: v, S: x, ..} for the signals S of the
\* branch v succeeds, and decode of its payload returns exactly the
\* multiplexor with v and the signals of that branch with the values encoded,
\* and nothing of another branch.
C2_MultiplexedRoundTrip ==
    ( /\ ~is_complex_multiplexed
      /\ OneMultiplexor
      /\ \A i \in 1..Len(signals) : IsMultiplexor(signals[i]) \/ signals[i].multiplex.kind = "int"
      /\ Len(calls) >= 1
      /\ calls[1].op = "encode"
      /\ NumericData(calls[1].data)
      /\ HasValue(calls[1].data, TheMultiplexor.name)
      /\ Len(calls[1].data) = Len(SelectedBy(calls[1].data))
      /\ \A i \in 1..Len(SelectedBy(calls[1].data)) :
             HasValue(calls[1].data, SelectedBy(calls[1].data)[i].name)
      /\ DisjointInFrame(SelectedBy(calls[1].data)) )
    => /\ ~calls[1].raised
       /\ (Len(calls) = 2 /\ ~calls[2].decodeToStr)
              => /\ ~calls[2].raised
                 /\ SameItems(calls[2].result, calls[1].data)

\* C3: on a frame that is not complex multiplexed and whose selected signals
\* have pairwise disjoint bit ranges inside the frame, encode returns a
\* payload of exactly frame.size bytes and the format it packs totals
\* frame.size * 8 bits.
C3_PayloadIsFrameSize ==
    \A i \in 1..Len(calls) :
        ( /\ calls[i].op = "encode"
          /\ ~is_complex_multiplexed
          /\ NumericData(calls[i].data)
          /\ DisjointInFrame(SelectedBy(calls[i].data)) )
        => /\ ~calls[i].raised
           /\ Len(calls[i].payload) = size * 8
           /\ SumSizes(calls[i].fmt) = size * 8

\* C4: for distinct signals with pairwise disjoint bit ranges inside the
\* frame (the empty list too), the widths of the fields bitstruct_format
\* emits sum to frame.size * 8 and every padding field has a positive width.
C4_FormatFillsFrame ==
    \A i \in 1..Len(calls) :
        LET list == IF calls[i].list.given THEN calls[i].list.list ELSE signals
        IN  ( /\ calls[i].op = "bitstruct_format"
              /\ DistinctNames(list)
              /\ DisjointInFrame(list) )
            => /\ SumSizes(calls[i].fmt) = size * 8
               /\ \A k \in 1..Len(calls[i].fmt) :
                      calls[i].fmt[k].type = "p" => calls[i].fmt[k].size > 0

\* C5: Frame.is_multiplexed is true if and only if one of the frame's
\* signals was constructed with multiplex = 'Multiplexor'; a signal with
\* multiplex = None is not a multiplexer.
C5_MultiplexedIffMultiplexor ==
    /\ is_multiplexed <=> HasMultiplexor
    /\ \A i \in 1..Len(signals) : signals[i].multiplex.kind = "none" => ~signals[i].is_multiplexer

\* the number of times name occurs in the list of names
Count(name, names) == Cardinality({k \in 1..Len(names) : names[k] = name})

\* C6: encode on a single-level multiplexed frame packs the multiplexor and
\* every signal whose multiplex is none or equals the multiplexor value of
\* the input map, each exactly once, and no signal of another multiplex.
C6_PackedOnce ==
    \A i \in 1..Len(calls) :
        ( /\ calls[i].op = "encode"
          /\ ~is_complex_multiplexed
          /\ OneMultiplexor
          /\ ~calls[i].raised )
        => \A k \in 1..Len(signals) :
               Count(signals[k].name, calls[i].packed) =
                   IF \E j \in 1..Len(SelectedBy(calls[i].data)) :
                          SelectedBy(calls[i].data)[j].name = signals[k].name
                   THEN 1 ELSE 0

\* C7: decode on a single-level multiplexed frame selects the signals by the
\* raw integer held in the multiplexor's own bit field of the payload,
\* wherever the multiplexor is among the signals and whatever the factors
\* and offsets are.
C7_SelectsByMultiplexorField ==
    \A i \in 1..Len(calls) :
        ( /\ calls[i].op = "decode"
          /\ ~is_complex_multiplexed
          /\ OneMultiplexor
          /\ ~calls[i].decodeToStr
          /\ DisjointInFrame(<<TheMultiplexor>>) )
        => calls[i].muxVal = IntVal(FieldRaw(TheMultiplexor, calls[i].payload))

\* C8: encode and decode on a complex multiplexed frame do not raise.
C8_ComplexDoesNotRaise ==
    \A i \in 1..Len(calls) :
        (is_complex_multiplexed /\ calls[i].op \in {"encode", "decode"}) => ~calls[i].raised

(***************************************************************************)
(* Claims about the conversions of a Signal (SignalSpec)                   *)
(***************************************************************************)

\* C9: for a non-float signal with a nonzero factor and any offset, and a raw
\* integer of calculateRawRange(), phys2raw(raw2phys(raw)) is raw exactly.
C9_RoundTripIsExact ==
    \A i \in 1..(Len(sigCalls) - 1) :
        ( /\ sigCalls[i].op = "raw2phys"
          /\ ~sigCalls[i].decodeToStr
          /\ sigCalls[i].raw \in RawRange(sig)
          /\ sigCalls[i + 1].op = "phys2raw"
          /\ sigCalls[i + 1].value = sigCalls[i].result
          /\ ~sig.is_float
          /\ ~DecIsZero(sig.factor) )
        => /\ ~sigCalls[i + 1].raised
           /\ sigCalls[i + 1].result = IntVal(sigCalls[i].raw)

\* C10: raw2phys(raw, decodeToStr) returns raw * factor + offset; when
\* decodeToStr is set and that number equals a key of the value table it
\* returns the name of that key instead, and the number in every other case.
C10_Raw2PhysResult ==
    \A i \in 1..Len(sigCalls) :
        sigCalls[i].op = "raw2phys" =>
            LET c    == sigCalls[i]
                phys == DecAdd(DecMul(DecOfInt(c.raw), sig.factor), sig.offset)
                keys == {j \in 1..Len(sig.values) : DecEq(DecOfInt(sig.values[j].key), phys)}
            IN  IF c.decodeToStr /\ keys # {}
                THEN \E j \in keys : c.result = StrVal(sig.values[j].name)
                ELSE c.result = DecVal(phys)

\* a scaled signal (factor 2, offset 1) whose raw 1 was decoded to a name
C10_Witness ==
    \E i \in 1..Len(sigCalls) :
        /\ sigCalls[i].op = "raw2phys"
        /\ sigCalls[i].decodeToStr
        /\ sigCalls[i].raw = 1
        /\ sigCalls[i].result = StrVal("Error")
        /\ ~DecEq(sig.offset, DecOfInt(0))

\* the keys of the value table of signal under name
KeysOf(signal, name) ==
    {signal.values[j].key : j \in {k \in 1..Len(signal.values) : signal.values[k].name = name}}

\* C11: the keys of the value table denote raw values: phys2raw of a name of
\* the table returns the name's integer key, for any factor and offset.
C11_NameIsRawKey ==
    \A i \in 1..Len(sigCalls) :
        ( /\ sigCalls[i].op = "phys2raw"
          /\ sigCalls[i].value.kind = "str"
          /\ KeysOf(sig, sigCalls[i].value.str) # {} )
        => /\ ~sigCalls[i].raised
           /\ \E key \in KeysOf(sig, sigCalls[i].value.str) : sigCalls[i].result = IntVal(key)

\* int((value - offset) / factor) in the arithmetic of decimal.Decimal
TruncatedQuotient(signal, value) ==
    DecToInt(DecDiv(DecSub(ToDec(value), signal.offset), signal.factor))

\* value is a number below signal.min or above signal.max
OutsideMinMax(signal, value) ==
    /\ IsNumber(value)
    /\ \/ DecCmp(ToDec(value), signal.min) < 0
       \/ DecCmp(ToDec(value), signal.max) > 0

PowerOfTwo(e) == IF e >= 0 THEN DecOfInt(Pow2(e)) ELSE Dec(0, <<5>>, -1)

\* the raw range the specification gives to a signal
SpecRawMin(signal) ==
    IF signal.is_signed THEN DecNeg(PowerOfTwo(signal.size - 1)) ELSE DecOfInt(0)

SpecRawMax(signal) ==
    DecSub(PowerOfTwo(IF signal.is_signed THEN signal.size - 1 ELSE signal.size), DecOfInt(1))

\* C15: calculateRawRange returns (0, 2^size - 1) for an unsigned signal and
\* (-2^(size-1), 2^(size-1) - 1) for a signed one; a signal constructed
\* without min and max has min = offset + raw_min * factor and
\* max = offset + raw_max * factor, computed in the decimal type.
C15_RawRangeAndDefaults ==
    \A i \in 1..Len(sigCalls) :
        sigCalls[i].op = "calculateRawRange"
            => /\ DecEq(sigCalls[i].range[1], SpecRawMin(sig))
               /\ DecEq(sigCalls[i].range[2], SpecRawMax(sig))
               /\ DecEq(sig.min, DecAdd(sig.offset, DecMul(SpecRawMin(sig), sig.factor)))
               /\ DecEq(sig.max, DecAdd(sig.offset, DecMul(SpecRawMax(sig), sig.factor)))

\* calculateRawRange was called on a signed signal of two bits with factor
\* -0.5 and offset -2.5: the range is (-2, 1), min is -1.5 and max is -3.0
C15_Witness ==
    /\ Len(sigCalls) = 1
    /\ sigCalls[1].op = "calculateRawRange"
    /\ sig.is_signed
    /\ sig.size = 2
    /\ sigCalls[1].range = <<DecOfInt(-2), DecOfInt(1)>>
    /\ DecEq(sig.factor, Dec(1, <<5>>, -1))
    /\ DecEq(sig.min, Dec(1, <<1,5>>, -1))
    /\ DecEq(sig.max, Dec(1, <<3>>, 0))

\* the bit numbering given differs from the byte order of the signal
NumberingDiffers(signal, bitNumbering) ==
    \/ bitNumbering = BoolVal(TRUE) /\ ~signal.is_little_endian
    \/ bitNumbering = BoolVal(FALSE) /\ signal.is_little_endian

\* the start bit the specification computes for setStartbit(b, ..)
SpecStartBit(signal, b, bitNumbering, startLittle) ==
    LET reflected == IF NumberingDiffers(signal, bitNumbering)
                     THEN b - (b % 8) + 7 - (b % 8) ELSE b
    IN  IF startLittle = BoolVal(TRUE) /\ ~signal.is_little_endian
        THEN reflected + 1 - signal.size ELSE reflected

\* the start bit that the call c of setStartbit has to compute
SpecStartBitOf(c) == SpecStartBit(sig, c.startBit, c.bitNumbering, c.startLittle)

\* C16: setStartbit(b, bitNumbering, startLittle) stores b reflected within
\* its byte if and only if bitNumbering is given and differs from
\* is_little_endian, then shifted by 1 - size if and only if startLittle is
\* true and the signal is big-endian, and b unchanged otherwise.
C16_StoredStartBit ==
    (Len(sigCalls) >= 1 /\ sigCalls[1].op = "setStartbit" /\ ~sigCalls[1].raised)
        => /\ sig.startBit = SpecStartBitOf(sigCalls[1])
           /\ sigCalls[1].result = IntVal(sig.startBit)

\* bit 13 was set on a big-endian signal of three bits with the bit
\* numbering of a little-endian one and as its lsbit: 13 is reflected to 10
\* and shifted to 8
C16_Witness ==
    /\ Len(sigCalls) = 1
    /\ sigCalls[1].op = "setStartbit"
    /\ sigCalls[1].startBit = 13
    /\ sigCalls[1].bitNumbering = BoolVal(TRUE)
    /\ sigCalls[1].startLittle = BoolVal(TRUE)
    /\ ~sig.is_little_endian
    /\ sig.size = 3
    /\ ~sigCalls[1].raised
    /\ sig.startBit = 8

\* C17: setStartbit raises whenever the start bit it computes is negative,
\* and the stored startBit then keeps the value it had before the call.
C17_NegativeStartBitRaises ==
    (Len(sigCalls) >= 1 /\ sigCalls[1].op = "setStartbit")
        => /\ sigCalls[1].raised <=> SpecStartBitOf(sigCalls[1]) < 0
           /\ sigCalls[1].raised => sig.startBit = sigCalls[1].before

\* bit 0 was set as the lsbit of a big-endian signal of three bits stored at
\* bit 5: the computed start bit is -2, the call raised and 5 is still stored
C17_Witness ==
    /\ Len(sigCalls) = 1
    /\ sigCalls[1].op = "setStartbit"
    /\ sigCalls[1].startBit = 0
    /\ sigCalls[1].startLittle = BoolVal(TRUE)
    /\ ~sig.is_little_endian
    /\ sig.size = 3
    /\ sigCalls[1].before = 5
    /\ sigCalls[1].raised
    /\ sig.startBit = 5

\* C18: for every byte order, size >= 1, bitNumbering, startLittle and start
\* bit b for which setStartbit does not raise, getStartbit(bitNumbering,
\* startLittle) after setStartbit(b, bitNumbering, startLittle) returns b.
C18_StartBitRoundTrip ==
    ( /\ Len(sigCalls) = 2
      /\ sigCalls[1].op = "setStartbit"
      /\ ~sigCalls[1].raised
      /\ sigCalls[2].op = "getStartbit"
      /\ sigCalls[2].bitNumbering = sigCalls[1].bitNumbering
      /\ sigCalls[2].startLittle = sigCalls[1].startLittle
      /\ sig.size >= 1 )
    => /\ ~sigCalls[2].raised
       /\ sigCalls[2].result = IntVal(sigCalls[1].startBit)

\* bit 13 set and read back on a big-endian signal of three bits, reflected
\* and shifted both ways: 8 is stored and 13 is returned
C18_Witness ==
    /\ Len(sigCalls) = 2
    /\ sigCalls[1].op = "setStartbit"
    /\ sigCalls[1].startBit = 13
    /\ sigCalls[1].bitNumbering = BoolVal(TRUE)
    /\ sigCalls[1].startLittle = BoolVal(TRUE)
    /\ sigCalls[2].op = "getStartbit"
    /\ sigCalls[2].bitNumbering = BoolVal(TRUE)
    /\ sigCalls[2].startLittle = BoolVal(TRUE)
    /\ ~sig.is_little_endian
    /\ sig.size = 3
    /\ sig.startBit = 8
    /\ sigCalls[2].result = IntVal(13)

(***************************************************************************)
(* Claims about phys2raw and what Frame.encode packs (Spec)                *)
(***************************************************************************)

\* the signal of the frame called name
SignalNamed(name) == signals[CHOOSE i \in 1..Len(signals) : signals[i].name = name]

\* value is a string that the value table of signal does not have
UnknownName(signal, value) == value.kind = "str" /\ KeysOf(signal, value.str) = {}

\* C12: phys2raw given a string that is not in the value table raises, with
\* no silent default; Frame.encode given such a value for a signal it packs
\* fails and returns no payload.
C12_UnknownNameRaises ==
    /\ \A i \in 1..Len(sigCalls) :
           (sigCalls[i].op = "phys2raw" /\ UnknownName(sig, sigCalls[i].value))
               => sigCalls[i].raised
    /\ \A i \in 1..Len(calls) :
           (calls[i].op = "encode" /\ ~is_complex_multiplexed)
               => \A k \in 1..Len(calls[i].raws) :
                      UnknownName(SignalNamed(calls[i].raws[k].name), calls[i].raws[k].value)
                          => /\ calls[i].raws[k].raised
                             /\ calls[i].raised
                             /\ calls[i].payload = <<>>

\* encode was given 'Bogus' for C, whose value table has only 'Three'
C12_Witness ==
    /\ ~is_complex_multiplexed
    /\ Len(calls) = 1
    /\ calls[1].op = "encode"
    /\ calls[1].data = << <<"C", StrVal("Bogus")>> >>
    /\ \E k \in 1..Len(calls[1].raws) :
           calls[1].raws[k].name = "C" /\ calls[1].raws[k].raised
    /\ calls[1].raised

\* the integer of the 'GenSigStartValue' attribute of signal, 0 without it
StartValueOf(signal) ==
    LET hits == {j \in 1..Len(signal.attributes) : signal.attributes[j][1] = "GenSigStartValue"}
    IN  IF hits = {} THEN 0 ELSE DecToInt(ToDec(signal.attributes[SetMin(hits)][2]))

\* C14: phys2raw called with no value returns the integer of the signal's
\* 'GenSigStartValue' attribute, 0 without the attribute; Frame.encode packs
\* this default for every signal of its loop that the input map leaves out.
C14_StartValueDefault ==
    /\ \A i \in 1..Len(sigCalls) :
           (sigCalls[i].op = "phys2raw" /\ sigCalls[i].value.kind = "none")
               => /\ ~sigCalls[i].raised
                  /\ sigCalls[i].result = IntVal(StartValueOf(sig))
    /\ \A i \in 1..Len(calls) :
           (calls[i].op = "encode" /\ ~is_complex_multiplexed)
               => /\ \A k \in 1..Len(calls[i].raws) :
                         ~HasValue(calls[i].data, calls[i].raws[k].name)
                             => /\ ~calls[i].raws[k].raised
                                /\ calls[i].raws[k].raw = StartValueOf(SignalNamed(calls[i].raws[k].name))
                  /\ ~calls[i].raised => Names(calls[i].raws) = calls[i].packed

\* encode of a map without A packed 5, the start value of A, and 0 for D
C14_Witness ==
    /\ ~is_complex_multiplexed
    /\ Len(calls) = 1
    /\ calls[1].op = "encode"
    /\ ~calls[1].raised
    /\ ~HasValue(calls[1].data, "A")
    /\ \E k \in 1..Len(calls[1].raws) : calls[1].raws[k].name = "A" /\ calls[1].raws[k].raw = 5
    /\ \E k \in 1..Len(calls[1].raws) : calls[1].raws[k].name = "D" /\ calls[1].raws[k].raw = 0

(***************************************************************************)
(* Claims about CanMatrix.recalcDLC (MatrixSpec)                           *)
(***************************************************************************)

\* the least number of bytes that hold the bits below start bit + size of
\* every signal of the frame: ceil(max (start bit + size) / 8), 0 without
\* signals
NeededBytes(frame) ==
    CHOOSE n \in 0..32 :
        /\ \A i \in 1..Len(frame.signals) :
               frame.signals[i].startBit + frame.signals[i].size <= 8 * n
        /\ n > 0 => \E i \in 1..Len(frame.signals) :
                        frame.signals[i].startBit + frame.signals[i].size > 8 * (n - 1)

\* the last call of recalcDLC
LastDlcCall == dlcCalls[Len(dlcCalls)]

\* C19: recalcDLC('max') never reduces a frame's size: afterwards the size
\* is the greater of the size before and ceil(max over the signals of
\* (start bit + size) / 8), and a second call changes nothing.
C19_MaxNeverReduces ==
    (Len(dlcCalls) >= 1 /\ LastDlcCall.strategy = "max")
        => /\ \A f \in 1..Len(frames) :
                  /\ frames[f].size >= LastDlcCall.before[f]
                  /\ frames[f].size = MaxOf(LastDlcCall.before[f], NeededBytes(frames[f]))
           /\ (Len(dlcCalls) >= 2 /\ dlcCalls[Len(dlcCalls) - 1].strategy = "max")
                  => \A f \in 1..Len(frames) : frames[f].size = LastDlcCall.before[f]

\* 'max' was called twice on a matrix with a frame of size 2 that needs one
\* byte and a frame of size 0 that needs two: the sizes are 2 and 2
C19_Witness ==
    /\ Len(dlcCalls) = 2
    /\ dlcCalls[1].strategy = "max"
    /\ dlcCalls[2].strategy = "max"
    /\ dlcCalls[1].before = <<2, 0>>
    /\ Len(frames) = 2
    /\ NeededBytes(frames[1]) = 1
    /\ NeededBytes(frames[2]) = 2
    /\ frames[1].size = 2
    /\ frames[2].size = 2

\* C20: recalcDLC('force') sets every frame's size to exactly ceil(max over
\* the signals of (start bit + size) / 8), also when that is smaller than the
\* size before (0 for a frame without signals); 'max' and 'force' give
\* different sizes exactly for the frames whose size before exceeds it.
C20_ForceSetsExactly ==
    (Len(dlcCalls) >= 1 /\ LastDlcCall.strategy = "force")
        => \A f \in 1..Len(frames) :
               /\ frames[f].size = NeededBytes(frames[f])
               /\ (frames[f].size # calcDLC(FrameOf(frames[f].signals, LastDlcCall.before[f])).size)
                      <=> LastDlcCall.before[f] > NeededBytes(frames[f])

\* 'force' was called on a matrix with a frame of size 2 without signals and
\* a frame of size 0 that needs two bytes: the sizes are 0 and 2
C20_Witness ==
    /\ Len(dlcCalls) = 1
    /\ dlcCalls[1].strategy = "force"
    /\ dlcCalls[1].before = <<2, 0>>
    /\ Len(frames) = 2
    /\ frames[1].signals = <<>>
    /\ frames[1].size = 0
    /\ NeededBytes(frames[2]) = 2
    /\ frames[2].size = 2

(***************************************************************************)
(* Claims about the bit layout of a Frame (LayoutSpec)                     *)
(***************************************************************************)

\* the calls of op that returned
Returned(op) == {i \in 1..Len(calls) : calls[i].op = op /\ ~calls[i].raised}

\* the positions of a bit field that hold no 0
Claimed(bitfield) == {p \in 1..Len(bitfield) : bitfield[p] # 0}

SameByteOrder(list) ==
    \A i, j \in 1..Len(list) : list[i].is_little_endian = list[j].is_little_endian

FreeRuns(bitfield) ==
    {<<a, b - a + 1>> : <<a, b>> \in
        {r \in (0..63) \X (0..63) :
            /\ r[1] <= r[2]
            /\ \A p \in r[1]..r[2] : bitfield[p + 1] = 0
            /\ r[1] = 0 \/ bitfield[r[1]] # 0
            /\ r[2] = 63 \/ bitfield[r[2] + 2] # 0}}

\* the signals that the i-th call added to the frame
AddedBy(i) ==
    SubSeq(signals, Len(calls[i].list.list) + 1, Len(calls[i].list.list) + Len(calls[i].packed))

\* C22: createDummySignals adds exactly one big-endian signal per maximal run
\* of consecutive unclaimed positions, with startBit the run's first position
\* and size the run's length; no added signal covers a position that was
\* claimed; a second call adds no signal.
C22_DummyPerRun ==
    \A i \in Returned("createDummySignals") :
        /\ Len(calls[i].packed) = Cardinality(FreeRuns(calls[i].result))
        /\ {<<AddedBy(i)[k].startBit, AddedBy(i)[k].size>> : k \in 1..Len(calls[i].packed)}
               = FreeRuns(calls[i].result)
        /\ \A k \in 1..Len(calls[i].packed) :
               /\ ~AddedBy(i)[k].is_little_endian
               /\ \A p \in BitRange(AddedBy(i)[k]) : calls[i].result[p + 1] = 0
        /\ i > 1 => calls[i].packed = <<>>

(***************************************************************************)
(* Claims about the Frame (Spec), continued                                *)
(***************************************************************************)

\* the list a call of bitstruct_format took the signals from
ListOf(i) == IF calls[i].list.given THEN calls[i].list.list ELSE signals

\* the orders of the n signals of a list: order[k] is the place in the list
\* of the k-th signal processed
Orders(n) == {order \in [1..n -> 1..n] : \A j, k \in 1..n : order[j] = order[k] => j = k}

Ascending(list, order) ==
    \A k \in 1..(Len(list) - 1) : list[order[k]].startBit <= list[order[k + 1]].startBit

\* the place in the format of the field of the k-th signal processed
FieldPlace(fmt, k) ==
    CHOOSE j \in 1..Len(fmt) :
        /\ fmt[j].type # "p"
        /\ Cardinality({h \in 1..j : fmt[h].type # "p"}) = k

\* the width of the padding in front of place j of the format, 0 for none
PaddingBefore(fmt, j) == IF j > 1 /\ fmt[j - 1].type = "p" THEN fmt[j - 1].size ELSE 0

\* the width of the padding that ends the format, 0 for none
PaddingAfter(fmt) == IF Len(fmt) > 0 /\ fmt[Len(fmt)].type = "p" THEN fmt[Len(fmt)].size ELSE 0

\* the bits of the payload that place j of the format stands for, the bits
\* being numbered from frame_bits - 1 for the first of the format down to 0
FieldBitsAt(fmt, j) ==
    {size * 8 - 1 - b : b \in SumSizes(SubSeq(fmt, 1, j - 1)) .. (SumSizes(SubSeq(fmt, 1, j)) - 1)}

Positive(n) == IF n > 0 THEN n ELSE 0

\* the format is the one of the list processed in that order
FormatOfOrder(fmt, list, order) ==
    /\ Cardinality({j \in 1..Len(fmt) : fmt[j].type # "p"}) = Len(list)
    /\ \A j \in 1..(Len(fmt) - 1) : ~(fmt[j].type = "p" /\ fmt[j + 1].type = "p")
    /\ \A k \in 1..Len(list) :
           /\ fmt[FieldPlace(fmt, k)] = SignalBitstructFormat(list[order[k]])
           /\ FieldBitsAt(fmt, FieldPlace(fmt, k))
                  = (size * 8 - list[order[k]].startBit - list[order[k]].size)
                        .. (size * 8 - list[order[k]].startBit - 1)
           /\ PaddingBefore(fmt, FieldPlace(fmt, k))
                  = IF k = 1 THEN list[order[1]].startBit
                    ELSE Positive(list[order[k]].startBit
                                  - (list[order[k - 1]].startBit + list[order[k - 1]].size))
    /\ Len(list) > 0 =>
           PaddingAfter(fmt) = size * 8 - (list[order[Len(list)]].startBit
                                           + list[order[Len(list)]].size)

\* C27: for signals with pairwise disjoint bit ranges inside the frame,
\* bitstruct_format processes the signals in ascending start-bit order; the
\* field of each signal stands for the bits frame_bits - startBit - size up
\* to, not including, frame_bits - startBit; the padding before the first
\* field is as wide as its start bit, the padding between two consecutive
\* fields as wide as the gap between them, and the padding after the last
\* field frame_bits - (startBit + size) of that signal.
C27_FieldsAscending ==
    \A i \in 1..Len(calls) :
        ( /\ calls[i].op = "bitstruct_format"
          /\ DistinctNames(ListOf(i))
          /\ DisjointInFrame(ListOf(i)) )
        => \E order \in Orders(Len(ListOf(i))) :
               /\ Ascending(ListOf(i), order)
               /\ FormatOfOrder(calls[i].fmt, ListOf(i), order)

\* what decode returns for the payload of the i-th call when decodeToStr is
\* False
PlainDecode(i) == decode(calls[i].payload, FALSE)

\* the symbolic names that the value table of signal has for value
SymbolsOf(signal, value) ==
    {signal.values[j].name :
        j \in {k \in 1..Len(signal.values) : PyEq(value, IntVal(signal.values[k].key))}}

\* item is the item plain with its value replaced by its symbolic name if
\* the value table of the signal has one for it
Symbolized(item, plain, signal) ==
    /\ item[1] = plain[1]
    /\ IF SymbolsOf(signal, plain[2]) = {} THEN item[2] = plain[2]
       ELSE item[2].kind = "str" /\ item[2].str \in SymbolsOf(signal, plain[2])

SymbolizedItems(result, plain) ==
    /\ Len(result) = Len(plain)
    /\ \A k \in 1..Len(plain) : Symbolized(result[k], plain[k], SignalNamed(plain[k][1]))

\* C28: decode(payload, decodeToStr=True) on a single-level multiplexed frame
\* completes and returns the names that decode(payload, decodeToStr=False)
\* returns, a value being replaced by its symbolic name exactly where the
\* physical value is a key of the signal's value table, also when the
\* multiplexor's own value has a symbolic name.
C28_DecodeToStrCompletes ==
    \A i \in 1..Len(calls) :
        ( /\ calls[i].op = "decode"
          /\ calls[i].decodeToStr
          /\ ~is_complex_multiplexed
          /\ OneMultiplexor
          /\ ~PlainDecode(i).raised )
        => /\ ~calls[i].raised
           /\ SymbolizedItems(calls[i].result, PlainDecode(i).result)

(***************************************************************************)
(* Claims about the CanMatrix (MatrixSpec), continued                      *)
(***************************************************************************)

\* the signals of a list that are not of size 0, in their order
NonZero(list) == SelectSeq(list, LAMBDA s : s.size # 0)

\* C29: after deleteZeroSignals no frame of the matrix contains a signal of
\* size 0, for any number and arrangement of such signals, and every signal
\* of another size is still in its frame, in the original order.
C29_NoZeroSignalsLeft ==
    (Len(dlcCalls) >= 1 /\ LastDlcCall.op = "deleteZeroSignals")
        => \A f \in 1..Len(frames) : frames[f].signals = NonZero(LastDlcCall.signals[f])

(***************************************************************************)
(* Claims about the effects of encode and decode (Spec)                    *)
(***************************************************************************)

\* what the call c returns when it is made by itself on the frame as it is
Alone(c) == IF c.op = "encode" THEN encode(c.data) ELSE decode(c.payload, c.decodeToStr)

CanIds(extended) == {i \in 1..Len(idCalls) : idCalls[i].op = "CanId" /\ idCalls[i].extended = extended}

\* C23: for source in 0..255, pgn in 0..0xFFFF and priority in 0..7, the
\* CanId of the extended identifier source | (pgn << 8) | (priority << 26)
\* returns the same three values: its source is source, its pgn is pgn and
\* its third value is priority.
C23_CanIdRoundTrip ==
    \A i \in CanIds(TRUE) :
        /\ idCalls[i].canId.source = IntVal(idCalls[i].source)
        /\ idCalls[i].canId.pgn = IntVal(idCalls[i].pgn)
        /\ idCalls[i].canId.destination = IntVal(idCalls[i].priority)

\* C24: CanId of a standard (not extended) identifier does not raise; its
\* source, pgn and destination are None for every id, and tuples() returns
\* them.
C24_StandardIdIsEmpty ==
    \A i \in CanIds(FALSE) :
        /\ ~idCalls[i].raised
        /\ idCalls[i].canId.source = NoneVal
        /\ idCalls[i].canId.pgn = NoneVal
        /\ idCalls[i].canId.destination = NoneVal
        /\ idCalls[i].tuples = <<NoneVal, NoneVal, NoneVal>>

\* a CanId has been made of the standard identifier 0x123
C24_Witness ==
    \E i \in CanIds(FALSE) : idCalls[i].id = 291 /\ idCalls[i].tuples = <<NoneVal, NoneVal, NoneVal>>

\* the value assigned last to the property op, 0 when none was
LastAssigned(op) ==
    IF \E i \in 1..Len(idCalls) : idCalls[i].op = op
    THEN idCalls[CHOOSE i \in 1..Len(idCalls) :
                     /\ idCalls[i].op = op
                     /\ \A k \in (i + 1)..Len(idCalls) : idCalls[k].op # op].value
    ELSE 0

\* C26: after any sequence of assignments to pgn, source and priority,
\* frame.id is (source & 0xFF) | ((pgn & 0xFFFF) << 8) | ((priority & 0x7)
\* << 26) of the values assigned last (0 for a property never assigned),
\* frame.extended and frame.is_j1939 are true, and no assignment raised.
C26_IdOfLastAssigned ==
    (Len(idCalls) >= 1 /\ idCalls[1].op # "CanId")
        => /\ \A i \in 1..Len(idCalls) : ~idCalls[i].raised
           /\ j1939.id = (LastAssigned("source") % 256)
                             + (LastAssigned("pgn") % 65536) * 256
                             + (LastAssigned("priority") % 8) * 67108864
           /\ j1939.extended
           /\ j1939.is_j1939

====
